---- MODULE Spec2Model ----
(***************************************************************************)
(* Fermax DuoxMe integration: the OAuth2 token holder (api/auth.py), the   *)
(* authenticated request with its single retry on 401 (api/client.py),     *)
(* the polling coordinator with bounded failure tolerance (coordinator.py),*)
(* the entry setup (__init__.py) and the lock entity's unlock (lock.py).   *)
(*                                                                         *)
(* Every await on network I/O is a suspension point: one action runs a     *)
(* coroutine from one such await to the next.  The poll cycle is the task  *)
(* "poll"; each unlock call of the lock entity is a task of Unlockers.     *)
(***************************************************************************)
EXTENDS Integers, Sequences, FiniteSets, TLC

VARIABLES
    now,                   \* datetime.now(), in seconds
    phase,                 \* position of async_setup_entry
    has_credentials,       \* entry.data holds username and password
    stored,                \* entry.data[CONF_TOKEN_DATA]
    token_data,            \* FermaxAuth._token_data
    pairing_lists,         \* the pairing lists the vendor may answer for this account
    lifetimes,             \* the expires_in values the OAuth2 endpoint hands out
    req,                   \* per task: the _request call in flight
    ev,                    \* what the step just taken did inside _request, in order
    consecutive_failures,  \* FermaxDataUpdateCoordinator._consecutive_failures
    last_data,             \* FermaxDataUpdateCoordinator._last_data
    poll,                  \* position and locals of _async_update_data
    cycle,                 \* how _async_update_data ended, if the step just taken ended it
    stale_run,             \* cycles that returned the cached snapshot since the last success
    issued,                \* the last TokenData object constructed
    is_unlocking,          \* FermaxLock._is_unlocking
    unlock,                \* per unlock task: position of async_unlock
    call,                  \* per direct caller of the client: the call in flight
    known_entities,        \* lock.py async_setup_entry: known_entities, by unique id
    registry,              \* the host's entity registry: disabled_by of each registered lock
    flow,                  \* the configuration flow: its step, errors and devices
    coordinator_data,      \* DataUpdateCoordinator.data, as the entities read it
    last_update_success,   \* DataUpdateCoordinator.last_update_success
    user_disabled          \* the locks the user has disabled in the host's registry

vars == <<now, phase, has_credentials, stored, token_data, pairing_lists, lifetimes,
          req, ev,
          consecutive_failures, last_data, poll, cycle, stale_run, issued,
          is_unlocking, unlock, call, known_entities, registry, flow,
          coordinator_data, last_update_success, user_disabled>>

----------------------------------------------------------------------------
(* Bounds of the model *)

MaxNow == 300
MaxFailures == 5
MaxPairings == 2
MaxSignal == 7

(* Program constants *)

MAX_CONSECUTIVE_FAILURES == 3
ACCESS_TOKEN_DEFAULT_LIFETIME == 345599
EXPIRY_BUFFER == 300
ClientError == 0

None == [none |-> TRUE]

Unlockers == {"u1", "u2"}
FirstUnlocker == {"u1"}
Callers == {"c1"}
FlowTask == "flow"
Tasks == {"poll"} \cup Unlockers \cup Callers \cup {FlowTask}

Devices == {"d1", "d2"}
TokenIds == {1, 2}
ExpiresInValues == {300, 600}
TickSteps == {300}

AuthErrorKinds == {"FermaxAuthError", "InvalidCredentialsError", "TokenRefreshError"}

----------------------------------------------------------------------------
(* Token Store: api/auth.py TokenData *)

Get(d, key, default) == IF key \in DOMAIN d THEN d[key] ELSE default

\* what the OAuth2 endpoint may answer with status 200, for lifetimes ls
TokenResponsesOf(ls) ==
    { [access_token |-> k, refresh_token |-> k, token_type |-> "Bearer", expires_in |-> e] :
        k \in TokenIds, e \in ls }
TokenResponses == TokenResponsesOf(lifetimes)

from_dict(data, t) ==
    [access_token  |-> Get(data, "access_token", 0),
     refresh_token |-> Get(data, "refresh_token", 0),
     token_type    |-> Get(data, "token_type", "Bearer"),
     expires_in    |-> Get(data, "expires_in", ACCESS_TOKEN_DEFAULT_LIFETIME),
     created_at    |-> t]

expires_at(tok) == tok.created_at + tok.expires_in

\* variant: the token counts as expired only after the buffered instant
is_expired_After(tok, t) == t > expires_at(tok) - EXPIRY_BUFFER

is_expired(tok, t) == t >= expires_at(tok) - EXPIRY_BUFFER

\* variant: the timestamp is written to the minute
isoformat_ToTheMinute(t) == [h |-> t \div 3600, m |-> (t \div 60) % 60, s |-> 0]

\* datetime.isoformat(): the timestamp written out in its fields
isoformat(t) == [h |-> t \div 3600, m |-> (t \div 60) % 60, s |-> t % 60]

\* datetime.fromisoformat(): a string that is no timestamp raises ValueError
fromisoformat(x) ==
    IF DOMAIN x = {"h", "m", "s"} /\ x.m \in 0..59 /\ x.s \in 0..59
    THEN [kind |-> "value", body |-> x.h * 3600 + x.m * 60 + x.s]
    ELSE [kind |-> "error", err |-> "ValueError"]

\* the empty string, the default of data.get("created_at", "")
EmptyStr == [str |-> ""]

to_dict(tok) ==
    [access_token  |-> tok.access_token,
     refresh_token |-> tok.refresh_token,
     token_type    |-> tok.token_type,
     expires_in    |-> tok.expires_in,
     created_at    |-> isoformat(tok.created_at)]

from_stored_dict(data, t) ==
    [access_token  |-> Get(data, "access_token", 0),
     refresh_token |-> Get(data, "refresh_token", 0),
     token_type    |-> Get(data, "token_type", "Bearer"),
     expires_in    |-> Get(data, "expires_in", ACCESS_TOKEN_DEFAULT_LIFETIME),
     created_at    |-> LET parsed == fromisoformat(Get(data, "created_at", EmptyStr))
                       IN IF parsed.kind = "value" THEN parsed.body ELSE t]

\* variant: any held token counts, expired or not
is_authenticated_AnyToken(tok, t) == tok # None

is_authenticated(tok, t) == tok # None /\ ~is_expired(tok, t)

\* variant: the held token is updated field by field, the refresh token last,
\* and the coroutine is suspended in between
StoreToken_FieldByField(old, new) ==
    IF old = None THEN new ELSE [new EXCEPT !.refresh_token = old.refresh_token]

\* the assignment self._token_data = TokenData.from_dict(token_response)
StoreToken(old, new) == new

----------------------------------------------------------------------------
(* Outcomes of an awaited call, and HTTP bodies *)

Value(b)  == [kind |-> "value", body |-> b]
Raised(e) == [kind |-> "error", err |-> e]
Pending   == [kind |-> "pending"]

NoBody      == [kind |-> "none"]
TextBody    == [kind |-> "text"]
ListBody(l) == [kind |-> "list", val |-> l]
DictBody(d) == [kind |-> "dict", val |-> d]

----------------------------------------------------------------------------
(* Authenticator and API Gateway: api/auth.py FermaxAuth, api/client.py _request *)

\* A _request call of a task: st is the await it is suspended at, retry is
\* retry_on_auth_error of the current invocation, calls counts the HTTP calls
\* issued to the vendor API since the top-level call was entered.  log and out
\* are filled while a step runs: log lists what the step did, in order.
\* args are the arguments the call was made with, hdr the Authorization header
\* of its HTTP call (the local headers).
IdleReq == [st |-> "idle", retry |-> TRUE, calls |-> 0, log |-> <<>>, out |-> Pending,
            args |-> None, hdr |-> None]

\* the arguments of a _request call: method, endpoint, params and json_data
Args(method, path, id, params, json) ==
    [method |-> method, endpoint |-> [path |-> path, id |-> id],
     params |-> params, json |-> json]

\* api/models.py DoorId; the door of a type has one identifier
DoorId(type) == [block |-> 0, subblock |-> -1, number |-> IF type = "ZERO" THEN 0 ELSE 1]

\* the calls the client's operations make
PairingsArgs == Args("GET", "/pairing/api/v4/pairings/me", "", None, None)
DeviceArgs(d) == Args("GET", "/deviceaction/api/v1/device/", d, None, None)
ServicesArgs(d) == Args("GET", "/services2/api/v1/services/", d, [deviceType |-> "wifi"], None)
OpenDoorArgs(d, door_id) ==
    Args("POST", "/deviceaction/api/v1/device/directed-opendoor", d, [unitId |-> d], door_id)
DeleteArgs ==
    Args("DELETE", "/callManager/api/v1/callregistry/participants", "", None,
         [participantIds |-> <<"r1">>, fcmToken |-> "fcm"])
RegisterArgs ==
    Args("POST", "/notification/api/v1/apptoken", "", None, [token |-> "fcm", os |-> "Android"])

\* a top-level call of _request with arguments args, lg being what its caller
\* did before in the same step
Call(args, lg) == [IdleReq EXCEPT !.log = lg, !.args = args]

Ev(r, e) == [r EXCEPT !.log = Append(@, e)]

\* _request returns or raises to its caller
Done(r, o) ==
    [Ev(r, [e |-> "end", calls |-> r.calls, retry |-> r.retry, kind |-> o.kind,
            err |-> IF o.kind = "error" THEN o.err ELSE "none",
            null |-> o.kind = "value" /\ o.body = NoBody])
        EXCEPT !.st = "done", !.out = o]

\* a call _request(..., retry_on_auth_error=retry) is entered
Invoke(r, retry) == [Ev(r, [e |-> "enter", retry |-> retry]) EXCEPT !.retry = retry]

\* get_auth_header
get_auth_header(tok) ==
    IF tok = None THEN Raised("FermaxAuthError")
    ELSE Value([token_type |-> tok.token_type, access_token |-> tok.access_token])

\* _request from the header construction to the await of session.request
SendHttp(r, tok) ==
    LET h == get_auth_header(tok) IN
    IF h.kind = "error" THEN Done(r, h)
    ELSE [Ev(r, [e |-> "send", n |-> r.calls + 1, hdr |-> h.body, args |-> r.args])
            EXCEPT !.st = "http", !.calls = @ + 1, !.hdr = h.body]

\* variant: refresh_token without the test for a held token
RefreshSend_Unguarded(r, tok, by) ==
    [Ev(r, [e |-> "refresh", by |-> by, refresh_token |-> Get(tok, "refresh_token", 0)])
        EXCEPT !.st = "refresh"]

\* refresh_token up to the await of its POST: it fails without a held token
\* (by is the caller: ensure_valid_token, the 401 branch of _request, or a direct call)
RefreshSend(r, tok, by) ==
    IF tok = None THEN Done(r, Raised("FermaxAuthError"))
    ELSE [Ev(r, [e |-> "refresh", by |-> by, refresh_token |-> tok.refresh_token])
            EXCEPT !.st = IF by = "ensure" THEN "ens_refresh"
                          ELSE IF by = "retry" THEN "retry_refresh"
                          ELSE "refresh"]

\* the branch ensure_valid_token takes when called
EnsureDecision(tok, t) ==
    IF tok = None THEN "raise"
    ELSE IF is_expired(tok, t) THEN "refresh"
    ELSE "return"

\* ensure_valid_token returns the access token; _request goes on to its HTTP call
EnsureReturn(r, tok) == SendHttp(Ev(r, [e |-> "ensured"]), tok)

\* _request from its entry to its first await
RequestEntry(r0, tok, t) ==
    LET d == EnsureDecision(tok, t)
        r == Ev(r0, [e |-> "ensure", held |-> tok # None,
                     expired |-> tok # None /\ is_expired(tok, t)])
    IN CASE d = "raise"   -> Done(r, Raised("FermaxAuthError"))
         [] d = "refresh" -> RefreshSend(r, tok, "ensure")
         [] d = "return"  -> EnsureReturn(r, tok)

\* variant: the recursive call keeps retry_on_auth_error for one more round
RetryEntry_RetriesAgain(r, tok, t) == RequestEntry(Invoke(r, r.calls < 2), tok, t)

\* variant: the recursive call goes straight to the HTTP call with the refreshed token
RetryEntry_NoEnsure(r, tok, t) == SendHttp(Invoke(r, FALSE), tok)

\* variant: the retry sends the headers of the first attempt again
RetryEntry_StaleHeader(r, tok, t) ==
    LET q == Ev(Invoke(r, FALSE), [e |-> "ensured"]) IN
    [Ev(q, [e |-> "send", n |-> q.calls + 1, hdr |-> q.hdr, args |-> q.args])
        EXCEPT !.st = "http", !.calls = @ + 1]

\* the recursive call of _request after the refresh that follows a 401
RetryEntry(r, tok, t) == RequestEntry(Invoke(r, FALSE), tok, t)

\* variant: ensure_valid_token loops until the held token is not expired
EnsureResume_Recheck(r, tok) ==
    IF is_expired(tok, now) THEN RefreshSend(r, tok, "ensure") ELSE EnsureReturn(r, tok)

\* ensure_valid_token resumes after its refresh answered 200
EnsureResume(r, tok) == EnsureReturn(r, tok)

\* variant: a 404 is an error like every other status of 400 or more
OnStatus_NotFoundRaises(r0, status, body, tok) ==
    LET r == Ev(r0, [e |-> "status", status |-> status, n |-> r0.calls]) IN
    IF status = 401 /\ r.retry THEN RefreshSend(r, tok, "retry")
    ELSE IF status >= 400 THEN Done(r, Raised("FermaxApiError"))
    ELSE Done(r, Value(body))

\* variant: a 401 to the first attempt is retried with the token as it is
OnStatus_RetriesUnrefreshed(r0, status, body, tok) ==
    LET r == Ev(r0, [e |-> "status", status |-> status, n |-> r0.calls]) IN
    IF status = 401 /\ r.retry THEN SendHttp(Invoke(r, FALSE), tok)
    ELSE IF status = 404 THEN Done(r, Value(NoBody))
    ELSE IF status >= 400 THEN Done(r, Raised("FermaxApiError"))
    ELSE Done(r, Value(body))

\* the status dispatch of _request, lines 104-134
OnStatus(r0, status, body, tok) ==
    LET r == Ev(r0, [e |-> "status", status |-> status, n |-> r0.calls]) IN
    IF status = 401 /\ r.retry THEN RefreshSend(r, tok, "retry")
    ELSE IF status = 404 THEN Done(r, Value(NoBody))
    ELSE IF status = 409 THEN Done(r, Raised("FermaxApiError"))
    ELSE IF status >= 400 THEN Done(r, Raised("FermaxApiError"))
    ELSE Done(r, Value(body))

\* except aiohttp.ClientError around session.request
OnClientError(r) ==
    Done(Ev(r, [e |-> "status", status |-> ClientError, n |-> r.calls]),
         Raised("FermaxApiError"))

\* session.request raises asyncio.TimeoutError (the session's total timeout ran
\* out): no aiohttp.ClientError, so the except clause of line 136 lets it pass
OnTimeout(r) ==
    Done(Ev(r, [e |-> "timeout", n |-> r.calls]), Raised("TimeoutError"))

\* a refresh_token call ends with an error
RefreshFailed(r, err) ==
    Done(Ev(r, [e |-> "refresh_failed",
                by |-> IF r.st = "ens_refresh" THEN "ensure"
                       ELSE IF r.st = "retry_refresh" THEN "retry"
                       ELSE "direct"]), Raised(err))

\* the call as kept between two steps
Suspended(r) == [r EXCEPT !.log = <<>>]


----------------------------------------------------------------------------
(* Vendor payloads and their parsing: api/models.py, api/client.py *)

RECURSIVE SeqsUpTo(_, _)
SeqsUpTo(S, n) ==
    IF n = 0 THEN {<<>>}
    ELSE LET shorter == SeqsUpTo(S, n - 1)
         IN shorter \cup { Append(q, x) : q \in {z \in shorter : Len(z) = n - 1}, x \in S }

PairingDicts  == [deviceId : Devices, enabled : BOOLEAN]
DeviceDicts   == { [connectionState |-> "Connected", wirelessSignal |-> 4] }
ServiceLists  == { <<"svc">> }

\* the accounts of the model: up to MaxPairings pairings, one per device
AllPairingLists ==
    { l \in SeqsUpTo(PairingDicts, MaxPairings) :
        \A i, j \in 1..Len(l) : l[i].deviceId = l[j].deviceId => i = j }
\* the account has at most the pairing of device d1, enabled or not
SinglePairingLists == { l \in AllPairingLists : \A i \in 1..Len(l) : l[i].deviceId = "d1" }
\* the account has enabled pairings only, that of device d1 first
EnabledPairingLists ==
    { l \in AllPairingLists :
        /\ \A i \in 1..Len(l) : l[i].enabled
        /\ l # <<>> => l[1].deviceId = "d1" }
\* the account has both devices, in either order, and a disabled pairing or two
MixedPairingLists ==
    { l \in AllPairingLists :
        /\ Len(l) = 2
        /\ (l[1].enabled /\ l[2].enabled) => l[1].deviceId = "d2"
        /\ ~l[1].enabled => l[1].deviceId = "d1" }
\* the account has the enabled pairing of device d1
OneDeviceLists == { <<[deviceId |-> "d1", enabled |-> TRUE]>> }

PairingBodies == { ListBody(l) : l \in pairing_lists } \cup {TextBody}
DeviceBodies  == { DictBody(d) : d \in DeviceDicts } \cup {TextBody}
ServiceBodies == { ListBody(l) : l \in ServiceLists }
DoorBodies    == {TextBody}
DeleteBodies  == { DictBody(d) : d \in {[hidden |-> TRUE], [hidden |-> FALSE], [deleted |-> 1]} }
                    \cup {TextBody}
RegisterBodies == {TextBody}

Pairing_from_dict(d) ==
    [device_id |-> Get(d, "deviceId", ""), enabled |-> Get(d, "enabled", TRUE)]

DeviceInfo_from_dict(d) ==
    [connection_state |-> Get(d, "connectionState", ""),
     wireless_signal  |-> Get(d, "wirelessSignal", 0)]

\* get_pairings after its _request returned
get_pairings(o) ==
    IF o.kind = "error" THEN o
    ELSE IF o.body.kind # "list" THEN Value(<<>>)
    ELSE Value([i \in 1..Len(o.body.val) |-> Pairing_from_dict(o.body.val[i])])

\* get_device after its _request returned; from_dict of a body that is no dict raises
get_device(o) ==
    IF o.kind = "error" THEN o
    ELSE IF o.body.kind = "none" THEN Value(None)
    ELSE IF o.body.kind # "dict" THEN Raised("AttributeError")
    ELSE Value(DeviceInfo_from_dict(o.body.val))

\* get_services after its _request returned
get_services(o) ==
    IF o.kind = "error" THEN o
    ELSE IF o.body.kind # "list" THEN Value(<<>>)
    ELSE Value(o.body.val)

\* open_door after its _request returned
open_door(o) ==
    IF o.kind = "value" THEN Value(o.body.kind # "none")
    ELSE IF o.err = "FermaxApiError" THEN Value(FALSE)
    ELSE o

\* delete_call_records after its _request returned
delete_call_records(o) ==
    IF o.kind = "value"
    THEN (IF o.body.kind = "dict" THEN Value(Get(o.body.val, "hidden", FALSE))
          ELSE Value(FALSE))
    ELSE IF o.err = "FermaxApiError" THEN Value(FALSE)
    ELSE o

\* variant: register_app_token without its except clause
register_app_token_Propagates(o) ==
    IF o.kind = "value" THEN Value(o.body.kind # "none") ELSE o

\* register_app_token after its _request returned
register_app_token(o) ==
    IF o.kind = "value" THEN Value(o.body.kind # "none")
    ELSE IF o.err = "FermaxApiError" THEN Value(FALSE)
    ELSE o

\* the calls of the client that report a boolean
CallOps == {"open_door", "delete_call_records", "register_app_token"}

CallResult(op, o) ==
    CASE op = "open_door"           -> open_door(o)
      [] op = "delete_call_records" -> delete_call_records(o)
      [] op = "register_app_token"  -> register_app_token(o)

----------------------------------------------------------------------------
(* Polling Coordinator: coordinator.py *)

FermaxData(devs) == [devices |-> devs]
EmptyData == FermaxData(<<>>)

DeviceData(p, info, services) == [pairing |-> p, device_info |-> info, services |-> services]

\* str.lower() on the connection states of the model
lower(str) == IF str = "Connected" THEN "connected" ELSE str

\* DeviceInfo.is_connected
DeviceInfo_is_connected(info) == lower(info.connection_state) = "connected"

\* DeviceData.is_connected and DeviceData.wireless_signal
DeviceData_is_connected(dd) ==
    IF dd.device_info # None THEN DeviceInfo_is_connected(dd.device_info) ELSE FALSE
DeviceData_wireless_signal(dd) ==
    IF dd.device_info # None THEN dd.device_info.wireless_signal ELSE 0

\* FermaxData.get_device
FermaxData_get_device(data, d) ==
    IF d \in DOMAIN data.devices THEN data.devices[d] ELSE None

\* an int | None of an entity's state: None is Unknown
Unknown  == [known |-> FALSE, val |-> 0]
Known(n) == [known |-> TRUE, val |-> n]

min(a, b) == IF a <= b THEN a ELSE b

\* variant: the conversion without the clamp
native_value_Unclamped(data, d) ==
    IF data = None THEN Unknown
    ELSE LET device_data == FermaxData_get_device(data, d) IN
         IF device_data # None /\ device_data.device_info # None
         THEN Known(DeviceData_wireless_signal(device_data) * 20)
         ELSE Unknown

\* sensor.py FermaxWirelessSignalSensor.native_value, on coordinator.data
native_value(data, d) ==
    IF data = None THEN Unknown
    ELSE LET device_data == FermaxData_get_device(data, d) IN
         IF device_data # None /\ device_data.device_info # None
         THEN Known(min(100, DeviceData_wireless_signal(device_data) * 20))
         ELSE Unknown

Put(d, k, v) == [x \in (DOMAIN d) \cup {k} |-> IF x = k THEN v ELSE d[x]]

IdlePoll == [pc |-> "idle", todo |-> <<>>, data |-> EmptyData, info |-> None, pairings |-> <<>>]

\* variant: the loop takes every pairing, enabled or not
SkipDisabled_KeepsAll(ps) == ps

\* the loop head of lines 131-133: the pairings from the first enabled one on
RECURSIVE SkipDisabled(_)
SkipDisabled(ps) ==
    IF ps = <<>> THEN <<>>
    ELSE IF ~Head(ps).enabled THEN SkipDisabled(Tail(ps))
    ELSE ps

\* the for loop of _async_update_data from its head: the next await or the return
LoopHead(ps, data) ==
    LET rest == SkipDisabled(ps) IN
    IF rest = <<>> THEN [next |-> "return", data |-> data]
    ELSE [next |-> "call", poll |-> [pc |-> "device", todo |-> rest, data |-> data, info |-> None,
                                     pairings |-> <<>>]]

\* the local pairings stays what get_pairings returned while the loop runs
WithPairings(a, ps) ==
    IF a.next = "call" THEN [a EXCEPT !.poll.pairings = ps]
    ELSE [next |-> a.next, data |-> a.data, pairings |-> ps]

\* the try block of _async_update_data, from the end of an awaited client call
\* (outcome o of its _request) to the next await, the return or the exception
PollAdvance(p, o) ==
    CASE p.pc = "pairings" ->
           LET res == get_pairings(o) IN
           IF res.kind = "error" THEN [next |-> "raise", err |-> res.err, data |-> p.data]
           ELSE IF res.body = <<>> THEN WithPairings([next |-> "return_empty", data |-> p.data], <<>>)
           ELSE WithPairings(LoopHead(res.body, p.data), res.body)
      [] p.pc = "device" ->
           LET res == get_device(o) IN
           IF res.kind = "error" THEN [next |-> "raise", err |-> res.err, data |-> p.data]
           ELSE [next |-> "call", poll |-> [p EXCEPT !.pc = "services", !.info = res.body]]
      [] p.pc = "services" ->
           LET res == get_services(o) IN
           IF res.kind = "error" THEN [next |-> "raise", err |-> res.err, data |-> p.data]
           ELSE LET pr == Head(p.todo)
                    dd == DeviceData(pr, p.info, res.body)
                IN WithPairings(LoopHead(Tail(p.todo),
                                         FermaxData(Put(p.data.devices, pr.device_id, dd))),
                                p.pairings)

\* variant: the ceiling is reached one failure early
OnOtherError_EarlyCeiling(cf, last) ==
    IF cf + 1 >= MAX_CONSECUTIVE_FAILURES - 1 \/ last = None
    THEN [cf |-> cf + 1, last |-> last, end |-> "raised", exc |-> "UpdateFailed", ret |-> None, why |-> "transient"]
    ELSE [cf |-> cf + 1, last |-> last, end |-> "returned", exc |-> "none", ret |-> last, why |-> "transient"]

\* variant: the count is compared with the ceiling before it is incremented
OnOtherError_LateCeiling(cf, last) ==
    IF cf >= MAX_CONSECUTIVE_FAILURES \/ last = None
    THEN [cf |-> cf + 1, last |-> last, end |-> "raised", exc |-> "UpdateFailed", ret |-> None, why |-> "transient"]
    ELSE [cf |-> cf + 1, last |-> last, end |-> "returned", exc |-> "none", ret |-> last, why |-> "transient"]

\* variant: _last_data is returned without the test for None
OnOtherError_ReturnsAbsent(cf, last) ==
    IF cf + 1 >= MAX_CONSECUTIVE_FAILURES
    THEN [cf |-> cf + 1, last |-> last, end |-> "raised", exc |-> "UpdateFailed", ret |-> None, why |-> "transient"]
    ELSE [cf |-> cf + 1, last |-> last, end |-> "returned", exc |-> "none", ret |-> last, why |-> "transient"]

\* variant: the count stops at the ceiling
OnOtherError_Saturates(cf, last) ==
    IF cf + 1 >= MAX_CONSECUTIVE_FAILURES
    THEN [cf |-> MAX_CONSECUTIVE_FAILURES, last |-> last, end |-> "raised", exc |-> "UpdateFailed", ret |-> None, why |-> "transient"]
    ELSE IF last # None
    THEN [cf |-> cf + 1, last |-> last, end |-> "returned", exc |-> "none", ret |-> last, why |-> "transient"]
    ELSE [cf |-> cf + 1, last |-> last, end |-> "raised", exc |-> "UpdateFailed", ret |-> None, why |-> "transient"]

\* lines 166-189: except Exception
OnOtherError(cf, last) ==
    IF cf + 1 >= MAX_CONSECUTIVE_FAILURES
    THEN [cf |-> cf + 1, last |-> last, end |-> "raised", exc |-> "UpdateFailed", ret |-> None, why |-> "transient"]
    ELSE IF last # None
    THEN [cf |-> cf + 1, last |-> last, end |-> "returned", exc |-> "none", ret |-> last, why |-> "transient"]
    ELSE [cf |-> cf + 1, last |-> last, end |-> "raised", exc |-> "UpdateFailed", ret |-> None, why |-> "transient"]

\* variant: without the except FermaxAuthError clause
OnAuthError_Tolerated(cf, last) == OnOtherError(cf, last)

\* lines 161-164: except FermaxAuthError
OnAuthError(cf, last) ==
    [cf |-> MAX_CONSECUTIVE_FAILURES, last |-> last, end |-> "raised", exc |-> "UpdateFailed", ret |-> None,
     why |-> "auth"]

\* variant: an empty pairing list is handled as a failed fetch
OnEmpty_AsFailure(data, cf, last) == OnOtherError(cf, last)

\* lines 123-128: no pairings (cf and last are the fields before the cycle)
OnEmpty(data, cf, last) ==
    [cf |-> 0, last |-> data, end |-> "returned", exc |-> "none", ret |-> data, why |-> "empty"]

\* variant: success stores the snapshot and leaves the counter alone
OnSuccess_KeepsCount(data, cf, last) ==
    [cf |-> cf, last |-> data, end |-> "returned", exc |-> "none", ret |-> data, why |-> "success"]

\* lines 156-159: success (cf and last are the fields before the cycle)
OnSuccess(data, cf, last) ==
    [cf |-> 0, last |-> data, end |-> "returned", exc |-> "none", ret |-> data, why |-> "success"]

\* variant: a transient failure stores the devices assembled so far
CycleEnd_StoresPartial(a, cf, last) ==
    CASE a.next = "return_empty" -> OnEmpty(a.data, cf, last)
      [] a.next = "return"       -> OnSuccess(a.data, cf, last)
      [] a.next = "raise" /\ a.err \in AuthErrorKinds    -> OnAuthError(cf, last)
      [] a.next = "raise" /\ a.err \notin AuthErrorKinds ->
           [OnOtherError(cf, last) EXCEPT !.last = a.data]

\* how _async_update_data ends: the new counter, the new _last_data and
\* what the caller gets
CycleEnd(a, cf, last) ==
    CASE a.next = "return_empty" -> OnEmpty(a.data, cf, last)
      [] a.next = "return"       -> OnSuccess(a.data, cf, last)
      [] a.next = "raise" /\ a.err \in AuthErrorKinds    -> OnAuthError(cf, last)
      [] a.next = "raise" /\ a.err \notin AuthErrorKinds -> OnOtherError(cf, last)

NoCycle == [end |-> "none"]

\* the host's DataUpdateCoordinator after a call of _async_update_data that
\* ended as e: a returned value becomes data, UpdateFailed leaves data alone
async_refresh(e, data) ==
    IF e.end = "returned"
    THEN [data |-> e.ret, last_update_success |-> TRUE]
    ELSE [data |-> data, last_update_success |-> FALSE]

\* variant: the sensor is available whenever its device is in the data
FermaxSensor_available_IgnoresFailure(data, success, d) ==
    data # None /\ FermaxData_get_device(data, d) # None

\* sensor.py FermaxSensor.available, for the sensor of device d
FermaxSensor_available(data, success, d) ==
    /\ success
    /\ data # None
    /\ FermaxData_get_device(data, d) # None

\* binary_sensor.py FermaxConnectivitySensor.available, for the sensor of device d
FermaxConnectivitySensor_available(data, success, d) ==
    /\ success
    /\ data # None
    /\ FermaxData_get_device(data, d) # None

lockVars  == <<is_unlocking, unlock>>
entityVars == <<known_entities, registry, user_disabled>>
hostVars == <<coordinator_data, last_update_success>>
setupVars == <<phase, has_credentials, stored, pairing_lists, lifetimes>>

----------------------------------------------------------------------------
(* The coroutines between two awaits *)

\* _async_update_data ends; lg is what the step did inside _request
PollFinish(a, lg) ==
    LET e == CycleEnd(a, consecutive_failures, last_data) IN
    /\ consecutive_failures' = e.cf
    /\ last_data' = e.last
    /\ cycle' = [end |-> e.end, ret |-> e.ret, exc |-> e.exc,
                 path |-> a.next,
                 err |-> IF a.next = "raise" THEN a.err ELSE "none",
                 built |-> IF a.next = "raise" THEN None ELSE a.data,
                 partial |-> IF a.next = "raise" THEN a.data ELSE None,
                 pairings |-> IF a.next = "raise" THEN None ELSE a.pairings,
                 cf0 |-> consecutive_failures,
                 last0 |-> last_data]
    /\ stale_run' = IF a.next # "raise" THEN 0
                    ELSE IF e.end = "returned" THEN stale_run + 1
                    ELSE stale_run
    /\ coordinator_data' = async_refresh(e, coordinator_data).data
    /\ last_update_success' = async_refresh(e, coordinator_data).last_update_success
    /\ poll' = IdlePoll
    /\ req' = [req EXCEPT !["poll"] = IdleReq]
    /\ ev' = lg

\* the arguments of the client call _async_update_data makes with locals p
PollArgs(p) ==
    CASE p.pc = "pairings" -> PairingsArgs
      [] p.pc = "device"   -> DeviceArgs(Head(p.todo).device_id)
      [] p.pc = "services" -> ServicesArgs(Head(p.todo).device_id)

\* _async_update_data awaits its next client call, with locals p
PollCall(p, lg, tok) ==
    LET r == RequestEntry(Invoke(Call(PollArgs(p), lg), TRUE), tok, now) IN
    IF r.st = "done" THEN PollFinish([next |-> "raise", err |-> r.out.err, data |-> p.data], r.log)
    ELSE /\ req' = [req EXCEPT !["poll"] = Suspended(r)]
         /\ ev' = r.log
         /\ poll' = p
         /\ cycle' = NoCycle
         /\ UNCHANGED <<consecutive_failures, hostVars, last_data, stale_run>>

\* the _request r of _async_update_data has ended
PollStep(r, tok) ==
    LET a == PollAdvance(poll, r.out) IN
    IF a.next = "call" THEN PollCall(a.poll, r.log, tok)
    ELSE PollFinish(a, r.log)

\* async_unlock after open_door ended: the finally clause runs in every case
UnlockFinish(u, r) ==
    LET res == open_door(r.out) IN
    /\ is_unlocking' = FALSE
    /\ unlock' = [unlock EXCEPT ![u] = "idle"]
    /\ req' = [req EXCEPT ![u] = IdleReq]
    /\ ev' = Append(r.log, [e |-> "unlocked",
                            res |-> IF res.kind = "error" THEN "raised"
                                    ELSE IF res.body THEN "success" ELSE "failure"])

\* a direct call op of the client ends, its _request having ended as r
CallFinish(c, op, r) ==
    /\ call' = [call EXCEPT ![c] = "idle"]
    /\ req' = [req EXCEPT ![c] = IdleReq]
    /\ ev' = Append(r.log, [e |-> "called", op |-> op, kind |-> r.out.kind,
                            err |-> IF r.out.kind = "error" THEN r.out.err ELSE "none",
                            null |-> r.out.kind = "value" /\ r.out.body = NoBody,
                            res |-> CallResult(op, r.out)])

\* no configuration flow is running
NoFlow == [step |-> "none"]

\* config_flow.py 103-110: the error the form is shown again with
flow_error(err) ==
    IF err = "InvalidCredentialsError" THEN "invalid_auth"
    ELSE IF err \in AuthErrorKinds THEN "cannot_connect"
    ELSE "unknown"

\* the user form is shown again with an error
ShowUserForm(f, error) == [f EXCEPT !.step = "user", !.errors = error]

\* _async_create_entry, lines 175-202: AbortFlow when an entry of the same
\* username is configured, else the entry with the devices and the token
create_entry(f, tok) ==
    IF f.configured THEN [f EXCEPT !.step = "AbortFlow"]
    ELSE [f EXCEPT !.step = "created", !.errors = "none",
                   !.entry = [devices |-> f.devices,
                              token_data |-> IF tok # None THEN to_dict(tok) ELSE None]]

\* variant: a list without pairings goes on to the creation of the entry
after_pairings_NoEmptyCheck(f, res, tok) ==
    IF res.kind = "error" THEN ShowUserForm(f, flow_error(res.err))
    ELSE LET devices == [i \in 1..Len(res.body) |->
                           [device_id |-> res.body[i].device_id, enabled |-> TRUE]]
             g == [f EXCEPT !.devices = devices]
         IN IF Len(devices) <= 1
            THEN LET c == create_entry(g, tok) IN
                 IF c.step = "AbortFlow" THEN ShowUserForm(g, "unknown") ELSE c
            ELSE [g EXCEPT !.step = "devices", !.errors = "none", !.selecting = TRUE]

\* async_step_user, lines 80-110, after get_pairings returned or raised res: an
\* AbortFlow of _async_create_entry is raised inside the try block and caught by
\* except Exception
after_pairings(f, res, tok) ==
    IF res.kind = "error" THEN ShowUserForm(f, flow_error(res.err))
    ELSE IF res.body = <<>> THEN ShowUserForm(f, "no_devices")
    ELSE LET devices == [i \in 1..Len(res.body) |->
                           [device_id |-> res.body[i].device_id, enabled |-> TRUE]]
             g == [f EXCEPT !.devices = devices]
         IN IF Len(devices) = 1
            THEN LET c == create_entry(g, tok) IN
                 IF c.step = "AbortFlow" THEN ShowUserForm(g, "unknown") ELSE c
            ELSE [g EXCEPT !.step = "devices", !.errors = "none", !.selecting = TRUE]

\* the get_pairings call of async_step_user has ended, its _request as r
FlowPairings(r, tok) ==
    LET res == get_pairings(r.out) IN
    /\ flow' = after_pairings(flow, res, tok)
    /\ req' = [req EXCEPT ![FlowTask] = IdleReq]
    /\ ev' = Append(r.log, [e |-> "flow_pairings", kind |-> res.kind,
                            n |-> IF res.kind = "value" THEN Len(res.body) ELSE 0])

\* task t's _request reached r (at its next await, or ended); the held token is
\* now tok, and made is the TokenData object the step constructed, if any
Resume(t, r, tok, made) ==
    /\ token_data' = tok
    /\ issued' = made
    /\ IF r.st # "done"
       THEN /\ req' = [req EXCEPT ![t] = Suspended(r)]
            /\ ev' = r.log
            /\ cycle' = NoCycle
            /\ UNCHANGED <<consecutive_failures, hostVars, last_data, poll, stale_run, lockVars, entityVars, flow, call>>
       ELSE IF t = "poll"
       THEN PollStep(r, tok) /\ UNCHANGED <<lockVars, entityVars, flow, call>>
       ELSE IF t = FlowTask
       THEN /\ FlowPairings(r, tok)
            /\ cycle' = NoCycle
            /\ UNCHANGED <<consecutive_failures, hostVars, last_data, poll, stale_run, lockVars,
                           entityVars, call>>
       ELSE IF t \in Unlockers
       THEN /\ UnlockFinish(t, r)
            /\ cycle' = NoCycle
            /\ UNCHANGED <<consecutive_failures, hostVars, last_data, poll, stale_run, call,
                           entityVars, flow>>
       ELSE /\ CallFinish(t, call[t], r)
            /\ cycle' = NoCycle
            /\ UNCHANGED <<consecutive_failures, hostVars, last_data, poll, stale_run, lockVars, entityVars, flow>>
    /\ UNCHANGED <<now, setupVars>>

----------------------------------------------------------------------------
(* The OAuth2 endpoint *)

OAuthStatuses == {200, 400, 500}
OAuthErrors   == {"invalid_grant", "invalid_request"}

\* variant: every 400 is taken for bad credentials
authenticate_result_AnyBadRequest(status, error) ==
    IF status = 400 THEN "InvalidCredentialsError"
    ELSE IF status # 200 THEN "FermaxAuthError"
    ELSE "ok"

\* variant: only a 400 is taken for a failure
authenticate_result_OnlyBadRequestFails(status, error) ==
    IF status = 400
    THEN IF error = "invalid_grant" THEN "InvalidCredentialsError" ELSE "FermaxAuthError"
    ELSE "ok"

\* authenticate's outcome for a status and the error code of a 400 body
authenticate_result(status, error) ==
    IF status = 400 THEN (IF error = "invalid_grant" THEN "InvalidCredentialsError"
                          ELSE "FermaxAuthError")
    ELSE IF status # 200 THEN "FermaxAuthError"
    ELSE "ok"

\* variant: every failure of authenticate is reported as not ready
setup_outcome_AlwaysNotReady(res) == "not_ready"

\* async_setup_entry, lines 61-64: ConfigEntryAuthFailed ("auth_failed") on
\* InvalidCredentialsError, ConfigEntryNotReady ("not_ready") on every other FermaxAuthError
setup_outcome(res) ==
    IF res = "InvalidCredentialsError" THEN "auth_failed" ELSE "not_ready"

\* refresh_token's outcome for a status
refresh_result(status) ==
    IF status = 400 THEN "TokenRefreshError"
    ELSE IF status # 200 THEN "TokenRefreshError"
    ELSE "ok"

\* the endpoint never issues the token that is held again
FreshResponses(tok) ==
    { resp \in TokenResponses : tok = None \/ resp.access_token # tok.access_token }

----------------------------------------------------------------------------
(* Actions *)

\* tokens an earlier run may have left in the config entry: one still valid, one expired
StoredTokens ==
    { from_dict(resp, 0) : resp \in {x \in TokenResponsesOf(ExpiresInValues) : x.access_token = 1} }
\* entry.data[CONF_TOKEN_DATA] when the entry is set up: absent, or a token as saved
StoredDicts == {None} \cup { to_dict(tok) : tok \in StoredTokens }

InitWith(lists, ls, stores, creds) ==
    /\ now = 0
    /\ phase = "setup"
    /\ has_credentials \in creds
    /\ stored \in stores
    /\ token_data = None
    /\ pairing_lists = lists
    /\ lifetimes = ls
    /\ req = [t \in Tasks |-> IdleReq]
    /\ ev = <<>>
    /\ consecutive_failures = 0
    /\ coordinator_data = None
    /\ last_update_success = TRUE
    /\ last_data = None
    /\ poll = IdlePoll
    /\ cycle = NoCycle
    /\ stale_run = 0
    /\ issued = None
    /\ is_unlocking = FALSE
    /\ unlock = [u \in Unlockers |-> "idle"]
    /\ call = [c \in Callers |-> "idle"]
    /\ known_entities = <<>>
    /\ registry = <<>>
    /\ user_disabled = {}
    /\ flow = NoFlow

Tick ==
    /\ phase \in {"loaded", "direct"}
    /\ \E d \in TickSteps : now + d <= MaxNow /\ now' = now + d
    /\ ev' = <<>>
    /\ cycle' = NoCycle
    /\ UNCHANGED <<setupVars, token_data, req, consecutive_failures, hostVars, last_data, poll,
                   stale_run, issued, lockVars, entityVars, flow, call>>

\* async_setup_entry, lines 36-56: restore the token, then either go on or authenticate
SetupEntry ==
    /\ phase = "setup"
    /\ LET tok == IF stored # None THEN from_stored_dict(stored, now) ELSE None IN
       /\ token_data' = tok
       /\ issued' = tok
       /\ phase' = IF is_authenticated(tok, now) THEN "loaded"
                   ELSE IF ~has_credentials THEN "auth_failed"
                   ELSE "authenticating"
    /\ UNCHANGED <<now, has_credentials, stored, pairing_lists, lifetimes, req, ev,
                   consecutive_failures, hostVars, last_data, poll, cycle, stale_run, lockVars, entityVars, flow, call>>

\* authenticate's POST is answered; async_setup_entry, lines 56-64
AuthenticateResponse ==
    /\ phase = "authenticating"
    /\ \E status \in OAuthStatuses, error \in OAuthErrors,
          resp \in FreshResponses(token_data) :
         LET res == authenticate_result(status, error) IN
         /\ IF res = "ok"
            THEN LET made == from_dict(resp, now)
                     tok  == StoreToken(token_data, made)
                 IN /\ token_data' = tok
                    /\ issued' = made
                    /\ stored' = to_dict(tok)
                    /\ phase' = "loaded"
            ELSE /\ phase' = setup_outcome(res)
                 /\ UNCHANGED <<token_data, issued, stored>>
         /\ ev' = <<[e |-> "authenticate", status |-> status,
                     error |-> IF status = 400 THEN error ELSE "none",
                     res |-> res, held0 |-> token_data]>>
    /\ UNCHANGED <<now, has_credentials, pairing_lists, lifetimes, req,
                   consecutive_failures, hostVars, last_data, poll, cycle, stale_run, lockVars, entityVars, flow, call>>

\* authenticate's POST fails in the transport: FermaxAuthError
AuthenticateClientError ==
    /\ phase = "authenticating"
    /\ phase' = setup_outcome("FermaxAuthError")
    /\ ev' = <<[e |-> "authenticate", status |-> ClientError, error |-> "none",
                res |-> "FermaxAuthError", held0 |-> token_data]>>
    /\ UNCHANGED <<now, has_credentials, stored, pairing_lists, lifetimes, token_data,
                   req, consecutive_failures, hostVars, last_data, poll, cycle, stale_run,
                   issued, lockVars, entityVars, flow, call>>

\* the host calls _async_update_data (one cycle at a time)
PollStart ==
    /\ phase = "loaded"
    /\ poll.pc = "idle"
    /\ consecutive_failures < MaxFailures
    /\ PollCall([IdlePoll EXCEPT !.pc = "pairings"], <<>>, token_data)
    /\ UNCHANGED <<now, setupVars, token_data, issued, lockVars, entityVars, flow, call>>

\* the host calls async_unlock of the lock entity
UnlockStart(u) ==
    /\ phase = "loaded"
    /\ last_data # None
    /\ unlock[u] = "idle"
    /\ LET r == RequestEntry(Invoke(Call(OpenDoorArgs("d1", DoorId("ZERO")), <<>>), TRUE),
                              token_data, now) IN
       IF r.st = "done" THEN UnlockFinish(u, r)
       ELSE /\ is_unlocking' = TRUE
            /\ unlock' = [unlock EXCEPT ![u] = "running"]
            /\ req' = [req EXCEPT ![u] = Suspended(r)]
            /\ ev' = r.log
    /\ cycle' = NoCycle
    /\ UNCHANGED <<now, setupVars, token_data, issued, consecutive_failures, hostVars, last_data,
                   poll, stale_run, call, entityVars, flow>>

\* the arguments of the client's boolean operations
CallArgs(op) ==
    CASE op = "open_door"           -> OpenDoorArgs("d1", DoorId("ZERO"))
      [] op = "delete_call_records" -> DeleteArgs
      [] op = "register_app_token"  -> RegisterArgs

\* a caller calls open_door, delete_call_records or register_app_token of the client
CallStart(c) ==
    /\ phase = "loaded"
    /\ call[c] = "idle"
    /\ \E op \in CallOps :
         LET r == RequestEntry(Invoke(Call(CallArgs(op), <<>>), TRUE), token_data, now) IN
         IF r.st = "done" THEN CallFinish(c, op, r)
         ELSE /\ call' = [call EXCEPT ![c] = op]
              /\ req' = [req EXCEPT ![c] = Suspended(r)]
              /\ ev' = r.log
    /\ cycle' = NoCycle
    /\ UNCHANGED <<now, setupVars, token_data, issued, consecutive_failures, hostVars, last_data,
                   poll, stale_run, lockVars, entityVars, flow>>

\* the refresh POST sent by ensure_valid_token is answered
EnsureRefreshResponse(t) ==
    /\ req[t].st = "ens_refresh"
    /\ \E status \in OAuthStatuses, resp \in FreshResponses(token_data) :
         IF refresh_result(status) = "ok"
         THEN LET made == from_dict(resp, now)
                  tok  == StoreToken(token_data, made)
              IN Resume(t, EnsureResume(req[t], tok), tok, made)
         ELSE Resume(t, RefreshFailed(req[t], refresh_result(status)), token_data, issued)

\* the refresh POST sent after a 401 is answered
RetryRefreshResponse(t) ==
    /\ req[t].st = "retry_refresh"
    /\ \E status \in OAuthStatuses, resp \in FreshResponses(token_data) :
         IF refresh_result(status) = "ok"
         THEN LET made == from_dict(resp, now)
                  tok  == StoreToken(token_data, made)
              IN Resume(t, RetryEntry(req[t], tok, now), tok, made)
         ELSE Resume(t, RefreshFailed(req[t], refresh_result(status)), token_data, issued)

\* a refresh POST fails in the transport: TokenRefreshError
RefreshClientError(t) ==
    /\ req[t].st \in {"ens_refresh", "retry_refresh"}
    /\ Resume(t, RefreshFailed(req[t], "TokenRefreshError"), token_data, issued)

ApiStatuses == {200, 401, 404, 409, 500}

\* the bodies the vendor API may send with a 200 to the call task t awaits
BodiesFor(t) ==
    IF t \in Unlockers THEN DoorBodies
    ELSE IF t = FlowTask THEN PairingBodies
    ELSE IF t \in Callers
    THEN CASE call[t] = "open_door"           -> DoorBodies
           [] call[t] = "delete_call_records" -> DeleteBodies
           [] call[t] = "register_app_token"  -> RegisterBodies
    ELSE CASE poll.pc = "pairings" -> PairingBodies
           [] poll.pc = "device"   -> DeviceBodies
           [] poll.pc = "services" -> ServiceBodies

\* the HTTP call of _request is answered
HttpResponse(t) ==
    /\ req[t].st = "http"
    /\ \E status \in ApiStatuses :
         \E body \in (IF status = 200 THEN BodiesFor(t) ELSE {NoBody}) :
           Resume(t, OnStatus(req[t], status, body, token_data), token_data, issued)

\* the HTTP call of _request fails in the transport
HttpClientError(t) ==
    /\ req[t].st = "http"
    /\ Resume(t, OnClientError(req[t]), token_data, issued)

\* the HTTP call of _request runs into the session's timeout
HttpTimeout(t) ==
    /\ req[t].st = "http"
    /\ Resume(t, OnTimeout(req[t]), token_data, issued)

\* the tokens and instants of the direct calls: lifetimes and instants on both
\* sides of the expiry buffer
DirectLifetimes == {299, 300, 301, 600}
DirectTimes     == {0, 1, 299, 300}
DirectTokens ==
    { from_dict(resp, c) : resp \in {x \in TokenResponsesOf(DirectLifetimes) : x.access_token = 1},
                           c \in {0, 1} }

\* a FermaxAuth object used directly, as the tests do: no entry is set up
InitAuth ==
    /\ now \in DirectTimes
    /\ phase = "direct"
    /\ has_credentials = TRUE
    /\ stored = None
    /\ token_data \in {None} \cup { tok \in DirectTokens : tok.created_at <= now }
    /\ issued = token_data
    /\ pairing_lists = OneDeviceLists
    /\ lifetimes = DirectLifetimes
    /\ req = [t \in Tasks |-> IdleReq]
    /\ ev = <<>>
    /\ consecutive_failures = 0
    /\ coordinator_data = None
    /\ last_update_success = TRUE
    /\ last_data = None
    /\ poll = IdlePoll
    /\ cycle = NoCycle
    /\ stale_run = 0
    /\ is_unlocking = FALSE
    /\ unlock = [u \in Unlockers |-> "idle"]
    /\ call = [c \in Callers |-> "idle"]
    /\ known_entities = <<>>
    /\ registry = <<>>
    /\ user_disabled = {}
    /\ flow = NoFlow

directFrame == <<setupVars, req, consecutive_failures, hostVars, last_data, poll, cycle, stale_run,
                 lockVars, entityVars, flow, call>>

\* refresh_token is called and its POST, if one is sent, is answered
DirectRefresh ==
    /\ phase = "direct"
    /\ LET r == RefreshSend(IdleReq, token_data, "direct") IN
       IF r.st = "done"
       THEN /\ ev' = Append(r.log, [e |-> "refresh_done", sent |-> FALSE,
                                    res |-> r.out.err, held0 |-> token_data])
            /\ UNCHANGED <<token_data, issued>>
       ELSE \E status \in OAuthStatuses \cup {ClientError},
               resp \in FreshResponses(token_data) :
              LET res == IF status = ClientError THEN "TokenRefreshError"
                         ELSE refresh_result(status)
              IN IF res = "ok"
                 THEN LET made == from_dict(resp, now) IN
                      /\ token_data' = StoreToken(token_data, made)
                      /\ issued' = made
                      /\ ev' = Append(r.log, [e |-> "refresh_done", sent |-> TRUE,
                                              status |-> status, res |-> res,
                                              held0 |-> token_data])
                 ELSE /\ ev' = Append(RefreshFailed(r, res).log,
                                      [e |-> "refresh_done", sent |-> TRUE,
                                       status |-> status, res |-> res,
                                       held0 |-> token_data])
                      /\ UNCHANGED <<token_data, issued>>
    /\ UNCHANGED <<now, directFrame>>

\* get_auth_header is called
DirectGetAuthHeader ==
    /\ phase = "direct"
    /\ ev' = <<[e |-> "get_auth_header", out |-> get_auth_header(token_data),
                held0 |-> token_data,
                authenticated |-> is_authenticated(token_data, now)]>>
    /\ UNCHANGED <<now, token_data, issued, directFrame>>

\* the property is_expired of the held token is read
DirectIsExpired ==
    /\ phase = "direct"
    /\ token_data # None
    /\ ev' = <<[e |-> "is_expired", val |-> is_expired(token_data, now)]>>
    /\ UNCHANGED <<now, token_data, issued, directFrame>>

\* the held token is saved as a dict, as the caller of authenticate does
DirectSave ==
    /\ phase = "direct"
    /\ token_data # None
    /\ stored' = to_dict(token_data)
    /\ ev' = <<[e |-> "to_dict"]>>
    /\ UNCHANGED <<now, token_data, issued, phase, has_credentials, pairing_lists, lifetimes,
                   req, consecutive_failures, hostVars, last_data, poll, cycle, stale_run, lockVars, entityVars, flow,
                   call>>

\* the saved dict is restored and set as the held token
DirectRestore ==
    /\ phase = "direct"
    /\ stored # None
    /\ LET tok == from_stored_dict(stored, now) IN
       /\ token_data' = tok
       /\ issued' = tok
    /\ ev' = <<[e |-> "from_stored_dict", held0 |-> token_data]>>
    /\ UNCHANGED <<now, directFrame>>

\* the device entries a snapshot may hold for device d: without device info, or
\* with a raw signal up to MaxSignal (the vendor documents 0 to 5)
SensorDeviceData(d) ==
    { DeviceData(Pairing_from_dict([deviceId |-> d, enabled |-> TRUE]), info, <<"svc">>) :
        info \in {None} \cup { DeviceInfo_from_dict([connectionState |-> "Connected",
                                                      wirelessSignal |-> g]) :
                                  g \in 0..MaxSignal } }

\* the snapshots the entities may find in coordinator.data
SensorSnapshots ==
    { FermaxData(devs) : devs \in UNION { [D -> UNION { SensorDeviceData(d) : d \in D }] :
                                            D \in SUBSET Devices } }

\* the entities of a loaded entry read coordinator.data, which is the snapshot
\* the last cycle returned
InitSensor ==
    /\ now = 0
    /\ phase = "entities"
    /\ has_credentials = TRUE
    /\ stored = None
    /\ token_data = None
    /\ issued = None
    /\ pairing_lists = OneDeviceLists
    /\ lifetimes = ExpiresInValues
    /\ req = [t \in Tasks |-> IdleReq]
    /\ ev = <<>>
    /\ consecutive_failures = 0
    /\ coordinator_data = None
    /\ last_update_success = TRUE
    /\ last_data \in {None} \cup { x \in SensorSnapshots :
                                      \A d \in DOMAIN x.devices : x.devices[d].pairing.device_id = d }
    /\ poll = IdlePoll
    /\ cycle = NoCycle
    /\ stale_run = 0
    /\ is_unlocking = FALSE
    /\ unlock = [u \in Unlockers |-> "idle"]
    /\ call = [c \in Callers |-> "idle"]
    /\ known_entities = <<>>
    /\ registry = <<>>
    /\ user_disabled = {}
    /\ flow = NoFlow

\* the host reads the state of the signal sensor of device d
ReadSignal(d) ==
    /\ phase = "entities"
    /\ ev' = <<[e |-> "native_value", device |-> d, val |-> native_value(last_data, d)]>>
    /\ UNCHANGED <<now, token_data, issued, last_data, setupVars, req, consecutive_failures, hostVars,
                   poll, cycle, stale_run, lockVars, entityVars, flow, call>>

NextSensor == \E d \in Devices : ReadSignal(d)

SpecSensor == InitSensor /\ [][NextSensor]_vars

----------------------------------------------------------------------------
(* Lock platform: lock.py async_setup_entry and its coordinator listener *)

DoorTypes == {"ZERO", "ONE"}

\* api/models.py AccessDoor
AccessDoor(type, visible) ==
    [door_id |-> DoorId(type), title |-> type, visible |-> visible, door_type |-> type]

\* the lists of doors a pairing may come with: each type at most once
DoorLists ==
    { l \in SeqsUpTo({ AccessDoor(ty, v) : ty \in DoorTypes, v \in BOOLEAN }, 2) :
        \A i, j \in 1..Len(l) : l[i].door_type = l[j].door_type => i = j }

\* api/models.py Pairing with its doors, as Pairing.from_dict builds it
LockPairing(d, doors) ==
    [device_id |-> d, enabled |-> TRUE, tag |-> "home",
     access_doors |-> doors, panel_access_doors |-> <<>>]

\* the snapshots the listener may find in coordinator.data
LockSnapshots ==
    { FermaxData(devs) :
        devs \in UNION { [D -> { DeviceData(LockPairing(d, l), None, <<"svc">>) :
                                   d \in D, l \in DoorLists }] : D \in SUBSET Devices } }

\* the pairing of tests/test_lock_visibility.py: a MagicMock that is given the
\* attributes all_doors and tag
MockPairing(doors) == [all_doors |-> doors, tag |-> "My House"]

\* the snapshots of that test: device d1 with such a pairing
MockSnapshots ==
    { FermaxData([d \in {"d1"} |-> [pairing |-> MockPairing(l)]]) : l \in DoorLists }

\* the attribute all_doors of a pairing: class Pairing (api/models.py 69-127)
\* defines the property all_visible_doors and no all_doors, so that reading it
\* raises AttributeError; the mock of the tests has the attribute
Pairing_all_doors(p) ==
    IF "all_doors" \in DOMAIN p THEN Value(p.all_doors) ELSE Raised("AttributeError")

\* lock.py 54 and 132-134: the unique id of a door's lock
unique_id(device_id, door) ==
    <<device_id, door.door_type, door.door_id.block, door.door_id.number>>

\* lock.py 47-55: current_doors, by unique id; a later door replaces an earlier
\* one of the same unique id
current_doors(data) ==
    LET devs == data.devices
        outs == [d \in DOMAIN devs |-> Pairing_all_doors(devs[d].pairing)]
    IN IF \E d \in DOMAIN devs : outs[d].kind = "error"
       THEN Raised("AttributeError")
       ELSE LET at(d, k) ==
                    CHOOSE i \in 1..Len(outs[d].body) :
                        /\ unique_id(d, outs[d].body[i]) = k
                        /\ \A j \in 1..Len(outs[d].body) :
                             unique_id(d, outs[d].body[j]) = k => j <= i
                keys == UNION { { unique_id(d, outs[d].body[i]) : i \in 1..Len(outs[d].body) } :
                                  d \in DOMAIN devs }
            IN Value([k \in keys |->
                        LET d == k[1] IN
                        [device_id |-> d, door |-> outs[d].body[at(d, k)],
                         tag |-> devs[d].pairing.tag]])

\* a FermaxLock as async_setup_entry keeps it: the door it was made for, and
\* whether the host has given it an entity id
FermaxLock(door) == [door |-> door, entity_id |-> FALSE]

\* FermaxLock.entity_registry_enabled_default, as the host records it when it
\* registers the entity: disabled by the integration unless the door is visible
disabled_by_default(entity) == IF entity.door.visible THEN "none" ELSE "integration"

\* the host runs the task async_add_entities scheduled: each new entity gets its
\* entity id and, unless it has one, its registry entry
host_add_entities(known, reg) ==
    [known |-> [k \in DOMAIN known |-> [known[k] EXCEPT !.entity_id = TRUE]],
     registry |-> [k \in (DOMAIN reg) \cup (DOMAIN known) |->
                     IF k \in DOMAIN reg THEN reg[k] ELSE disabled_by_default(known[k])]]

\* lock.py 76-92: the registry entry of a known lock follows the door's visibility
update_visibility(entity, door, disabled_by) ==
    IF ~entity.entity_id THEN disabled_by
    ELSE IF ~door.visible THEN "integration"
    ELSE IF disabled_by = "integration" THEN "none"
    ELSE disabled_by

\* lock.py 41-95: _async_update_entities on coordinator.data, with the known
\* entities and the registry as they are
update_entities(data, known, reg) ==
    IF data = None
    THEN [out |-> "returned", known |-> known, registry |-> reg, added |-> {}, removed |-> {}]
    ELSE LET cur == current_doors(data) IN
         IF cur.kind = "error"
         THEN [out |-> "raised", known |-> known, registry |-> reg, added |-> {}, removed |-> {}]
         ELSE LET doors   == cur.body
                  new     == (DOMAIN doors) \ (DOMAIN known)
                  all     == [k \in (DOMAIN known) \cup new |->
                                IF k \in DOMAIN known THEN known[k]
                                ELSE FermaxLock(doors[k].door)]
                  removed == (DOMAIN all) \ (DOMAIN doors)
              IN [out |-> "returned",
                  known |-> [k \in (DOMAIN all) \ removed |-> all[k]],
                  registry |-> [k \in DOMAIN reg |->
                                  IF k \in (DOMAIN all) \ removed
                                  THEN update_visibility(all[k], doors[k].door, reg[k])
                                  ELSE reg[k]],
                  added |-> new, removed |-> removed]

\* the listener has run: what it left, and what the step did
ListenerRan(data, known0, reg0, res) ==
    /\ known_entities' = res.known
    /\ registry' = res.registry
    /\ UNCHANGED user_disabled
    /\ ev' = <<[e |-> "listener", out |-> res.out, data |-> data,
                known0 |-> DOMAIN known0, registry0 |-> reg0,
                added |-> res.added, removed |-> res.removed]>>

\* the platforms of a loaded entry are set up once the first refresh has
\* succeeded, so that coordinator.data holds a snapshot
InitLock ==
    /\ now = 0
    /\ phase = "lock_setup"
    /\ has_credentials = TRUE
    /\ stored = None
    /\ token_data = None
    /\ issued = None
    /\ pairing_lists = OneDeviceLists
    /\ lifetimes = ExpiresInValues
    /\ req = [t \in Tasks |-> IdleReq]
    /\ ev = <<>>
    /\ consecutive_failures = 0
    /\ coordinator_data = None
    /\ last_update_success = TRUE
    /\ last_data \in { x \in LockSnapshots :
                         \A d \in DOMAIN x.devices : x.devices[d].pairing.device_id = d }
    /\ poll = IdlePoll
    /\ cycle = NoCycle
    /\ stale_run = 0
    /\ is_unlocking = FALSE
    /\ unlock = [u \in Unlockers |-> "idle"]
    /\ call = [c \in Callers |-> "idle"]
    /\ known_entities = <<>>
    /\ registry = <<>>
    /\ user_disabled = {}
    /\ flow = NoFlow

lockFrame == <<now, token_data, issued, has_credentials, stored, pairing_lists, lifetimes,
               req, consecutive_failures, hostVars, poll, cycle, stale_run, lockVars, call, flow>>

\* lock.py async_setup_entry, lines 35-99: the listener is registered, then run once
LockSetupEntry ==
    /\ phase = "lock_setup"
    /\ phase' = "lock_listening"
    /\ ListenerRan(last_data, <<>>, registry, update_entities(last_data, <<>>, registry))
    /\ UNCHANGED <<last_data, lockFrame>>

\* a cycle of the coordinator returned a snapshot and the coordinator runs its
\* listeners; the host has added the entities the run before handed to it
CoordinatorUpdate ==
    /\ phase = "lock_listening"
    /\ \E data \in LockSnapshots :
         /\ \A d \in DOMAIN data.devices : data.devices[d].pairing.device_id = d
         /\ last_data' = data
         /\ LET h == host_add_entities(known_entities, registry) IN
            ListenerRan(data, h.known, h.registry,
                        update_entities(data, h.known, h.registry))
    /\ UNCHANGED <<phase, lockFrame>>

\* the listener as tests/test_lock_visibility.py 41-112 drives it: the
\* coordinator's data holds a mock pairing, the doors of which change between
\* two calls of the listener; the host has added the entities handed to it
ListenerCallback ==
    /\ phase = "lock_listening"
    /\ \E data \in MockSnapshots :
         /\ last_data' = data
         /\ LET h == host_add_entities(known_entities, registry) IN
            ListenerRan(data, h.known, h.registry,
                        update_entities(data, h.known, h.registry))
    /\ UNCHANGED <<phase, lockFrame>>

\* the user disables an enabled lock in the host's entity registry
UserDisables ==
    /\ phase = "lock_listening"
    /\ \E k \in DOMAIN registry :
         /\ registry[k] = "none"
         /\ registry' = [registry EXCEPT ![k] = "user"]
         /\ user_disabled' = user_disabled \cup {k}
    /\ ev' = <<>>
    /\ UNCHANGED <<phase, last_data, known_entities, lockFrame>>

\* the platform set up on the data of the test, then listener calls and the user
InitVisibility ==
    /\ now = 0
    /\ phase = "lock_setup"
    /\ has_credentials = TRUE
    /\ stored = None
    /\ token_data = None
    /\ issued = None
    /\ pairing_lists = OneDeviceLists
    /\ lifetimes = ExpiresInValues
    /\ req = [t \in Tasks |-> IdleReq]
    /\ ev = <<>>
    /\ consecutive_failures = 0
    /\ coordinator_data = None
    /\ last_update_success = TRUE
    /\ last_data \in MockSnapshots
    /\ poll = IdlePoll
    /\ cycle = NoCycle
    /\ stale_run = 0
    /\ is_unlocking = FALSE
    /\ unlock = [u \in Unlockers |-> "idle"]
    /\ call = [c \in Callers |-> "idle"]
    /\ flow = NoFlow
    /\ known_entities = <<>>
    /\ registry = <<>>
    /\ user_disabled = {}

NextVisibility ==
    \/ LockSetupEntry
    \/ ListenerCallback
    \/ UserDisables

SpecVisibility == InitVisibility /\ [][NextVisibility]_vars

NextLock ==
    \/ LockSetupEntry
    \/ CoordinatorUpdate

SpecLock == InitLock /\ [][NextLock]_vars

----------------------------------------------------------------------------
(* Configuration flow: config_flow.py FermaxDuoxmeConfigFlow *)

\* the host starts a flow and shows the user form; an entry of the username the
\* user will enter may be configured already
InitFlow ==
    /\ now = 0
    /\ phase = "flow"
    /\ has_credentials = TRUE
    /\ stored = None
    /\ token_data = None
    /\ issued = None
    /\ pairing_lists = AllPairingLists
    /\ lifetimes = ExpiresInValues
    /\ req = [t \in Tasks |-> IdleReq]
    /\ ev = <<>>
    /\ consecutive_failures = 0
    /\ coordinator_data = None
    /\ last_update_success = TRUE
    /\ last_data = None
    /\ poll = IdlePoll
    /\ cycle = NoCycle
    /\ stale_run = 0
    /\ is_unlocking = FALSE
    /\ unlock = [u \in Unlockers |-> "idle"]
    /\ call = [c \in Callers |-> "idle"]
    /\ known_entities = <<>>
    /\ registry = <<>>
    /\ user_disabled = {}
    /\ \E c \in BOOLEAN :
         flow = [step |-> "user", errors |-> "none", devices |-> <<>>, entry |-> None,
                 selecting |-> FALSE, configured |-> c]

flowFrame == <<now, setupVars, consecutive_failures, hostVars, last_data, poll, cycle, stale_run,
               lockVars, entityVars, call>>

\* async_step_user with the user's input, lines 67-76: a new FermaxAuth, then authenticate
FlowSubmitUser ==
    /\ phase = "flow"
    /\ flow.step = "user"
    /\ flow' = [flow EXCEPT !.step = "authenticating", !.errors = "none"]
    /\ token_data' = None
    /\ issued' = None
    /\ ev' = <<>>
    /\ UNCHANGED <<req, flowFrame>>

\* authenticate's POST is answered or fails in the transport; on success
\* async_step_user goes on to get_pairings
FlowAuthenticateResponse ==
    /\ phase = "flow"
    /\ flow.step = "authenticating"
    /\ \E status \in OAuthStatuses \cup {ClientError}, error \in OAuthErrors,
          resp \in FreshResponses(token_data) :
         LET res == IF status = ClientError THEN "FermaxAuthError"
                    ELSE authenticate_result(status, error)
             log == <<[e |-> "flow_authenticate", res |-> res]>>
         IN IF res = "ok"
            THEN LET made == from_dict(resp, now)
                     tok  == StoreToken(token_data, made)
                     r    == RequestEntry(Invoke(Call(PairingsArgs, log), TRUE), tok, now)
                 IN /\ token_data' = tok
                    /\ issued' = made
                    /\ IF r.st = "done" THEN FlowPairings(r, tok)
                       ELSE /\ req' = [req EXCEPT ![FlowTask] = Suspended(r)]
                            /\ flow' = [flow EXCEPT !.step = "pairings"]
                            /\ ev' = r.log
            ELSE /\ flow' = ShowUserForm(flow, flow_error(res))
                 /\ ev' = log
                 /\ UNCHANGED <<token_data, issued, req>>
    /\ UNCHANGED flowFrame

\* async_step_devices with the user's selection, lines 136-146
FlowSubmitDevices ==
    /\ phase = "flow"
    /\ flow.step = "devices"
    /\ \E selected \in SUBSET { flow.devices[i].device_id : i \in 1..Len(flow.devices) } :
         LET devices == [i \in 1..Len(flow.devices) |->
                           [flow.devices[i] EXCEPT !.enabled = flow.devices[i].device_id \in selected]]
             g == [flow EXCEPT !.devices = devices]
         IN IF ~\E i \in 1..Len(devices) : devices[i].enabled
            THEN flow' = [g EXCEPT !.errors = "no_devices_selected"]
            ELSE flow' = create_entry(g, token_data)
    /\ ev' = <<>>
    /\ UNCHANGED <<token_data, issued, req, flowFrame>>

NextFlow ==
    \/ FlowSubmitUser
    \/ FlowAuthenticateResponse
    \/ FlowSubmitDevices
    \/ EnsureRefreshResponse(FlowTask)
    \/ RetryRefreshResponse(FlowTask)
    \/ RefreshClientError(FlowTask)
    \/ HttpResponse(FlowTask)
    \/ HttpClientError(FlowTask)
    \/ HttpTimeout(FlowTask)

SpecFlow == InitFlow /\ [][NextFlow]_vars

NextAuth ==
    \/ Tick
    \/ DirectRefresh
    \/ DirectGetAuthHeader
    \/ DirectIsExpired
    \/ DirectSave
    \/ DirectRestore

\* setup and polling
NextPoll ==
    \/ Tick
    \/ SetupEntry
    \/ AuthenticateResponse
    \/ AuthenticateClientError
    \/ PollStart
    \/ EnsureRefreshResponse("poll")
    \/ RetryRefreshResponse("poll")
    \/ RefreshClientError("poll")
    \/ HttpResponse("poll")
    \/ HttpClientError("poll")
    \/ HttpTimeout("poll")

\* the unlock calls of the lock entity, one at a time
NextUnlock ==
    \/ \E u \in FirstUnlocker : UnlockStart(u)
    \/ \E u \in FirstUnlocker : EnsureRefreshResponse(u)
    \/ \E u \in FirstUnlocker : RetryRefreshResponse(u)
    \/ \E u \in FirstUnlocker : RefreshClientError(u)
    \/ \E u \in FirstUnlocker : HttpResponse(u)
    \/ \E u \in FirstUnlocker : HttpClientError(u)
    \/ \E u \in FirstUnlocker : HttpTimeout(u)

\* the unlock calls of the lock entity, a second one starting while the first
\* is in flight
NextOverlap ==
    \/ Tick
    \/ \E u \in Unlockers : UnlockStart(u)
    \/ \E u \in Unlockers : EnsureRefreshResponse(u)
    \/ \E u \in Unlockers : RetryRefreshResponse(u)
    \/ \E u \in Unlockers : RefreshClientError(u)
    \/ \E u \in Unlockers : HttpResponse(u)
    \/ \E u \in Unlockers : HttpClientError(u)
    \/ \E u \in Unlockers : HttpTimeout(u)

Next == NextPoll \/ NextUnlock

\* setup, then direct calls of the client
NextCalls ==
    \/ Tick
    \/ SetupEntry
    \/ AuthenticateResponse
    \/ AuthenticateClientError
    \/ \E c \in Callers : CallStart(c)
    \/ \E c \in Callers : EnsureRefreshResponse(c)
    \/ \E c \in Callers : RetryRefreshResponse(c)
    \/ \E c \in Callers : RefreshClientError(c)
    \/ \E c \in Callers : HttpResponse(c)
    \/ \E c \in Callers : HttpClientError(c)
    \/ \E c \in Callers : HttpTimeout(c)

\* polling alone, on an account with at most one pairing; the endpoint hands out
\* tokens that expire within the horizon and tokens that are expired on arrival
Init == InitWith(SinglePairingLists, ExpiresInValues, StoredDicts, {TRUE})
Spec == Init /\ [][NextPoll]_vars

\* the same, with the host calling for the next cycle and the network answering
\* for as long as a step is possible
SpecLive == Init /\ [][NextPoll]_vars /\ WF_vars(NextPoll)

\* polling alone, over every account of up to MaxPairings pairings
InitAccounts == InitWith(AllPairingLists, {600}, StoredDicts, {TRUE})
SpecAccounts == InitAccounts /\ [][NextPoll]_vars

\* polling alone on an account whose pairings are all enabled, device d1 first
InitDevices == InitWith(EnabledPairingLists, {600}, {None}, {TRUE})
SpecDevices == InitDevices /\ [][NextPoll]_vars

\* polling alone on an account of two devices, some of its pairings disabled
InitMixed == InitWith(MixedPairingLists, {600}, {None}, {TRUE})
SpecMixed == InitMixed /\ [][NextPoll]_vars

\* polling interleaved with unlock calls, on an account with one enabled pairing
InitUnlock == InitWith(OneDeviceLists, {600}, StoredDicts, {TRUE})
SpecUnlock == InitUnlock /\ [][Next]_vars

\* a loaded entry after a first successful cycle on the account with device
\* d1, the token of that setup held; only unlock calls follow
InitOverlap ==
    /\ now = 0
    /\ phase = "loaded"
    /\ has_credentials = TRUE
    /\ token_data \in { tok \in StoredTokens : tok.expires_in = 600 }
    /\ stored = to_dict(token_data)
    /\ issued = token_data
    /\ pairing_lists = OneDeviceLists
    /\ lifetimes = {600}
    /\ req = [t \in Tasks |-> IdleReq]
    /\ ev = <<>>
    /\ consecutive_failures = 0
    /\ last_data = FermaxData([d \in {"d1"} |->
                      DeviceData(Pairing_from_dict([deviceId |-> d, enabled |-> TRUE]),
                                 DeviceInfo_from_dict([connectionState |-> "Connected",
                                                       wirelessSignal |-> 4]),
                                 <<"svc">>)])
    /\ coordinator_data = last_data
    /\ last_update_success = TRUE
    /\ poll = IdlePoll
    /\ cycle = NoCycle
    /\ stale_run = 0
    /\ is_unlocking = FALSE
    /\ unlock = [u \in Unlockers |-> "idle"]
    /\ call = [c \in Callers |-> "idle"]
    /\ known_entities = <<>>
    /\ registry = <<>>
    /\ user_disabled = {}
    /\ flow = NoFlow
SpecOverlap == InitOverlap /\ [][NextOverlap]_vars

\* direct calls of the client's boolean operations, one at a time
InitCalls == InitWith(OneDeviceLists, ExpiresInValues, StoredDicts, {TRUE})
SpecCalls == InitCalls /\ [][NextCalls]_vars

\* setup of an entry with or without stored credentials, then polling
InitSetup == InitWith(OneDeviceLists, ExpiresInValues, StoredDicts, BOOLEAN)
SpecSetup == InitSetup /\ [][NextPoll]_vars

\* direct calls of the token holder, one at a time
SpecAuth == InitAuth /\ [][NextAuth]_vars

----------------------------------------------------------------------------
(* Properties *)

\* a poll cycle ended in the step just taken
CycleEnded  == cycle.end # "none"
CycleFailed == CycleEnded /\ cycle.path = "raise"
CycleTransient == CycleFailed /\ cycle.err \notin AuthErrorKinds
CycleAuth      == CycleFailed /\ cycle.err \in AuthErrorKinds
CycleSucceeded == CycleEnded /\ cycle.path \in {"return", "return_empty"}

EvIdx == 1..Len(ev)
IsEv(j, kind) == j \in EvIdx /\ ev[j].e = kind

\* C1: a cycle that fails with an error that is no authentication error, while a
\* snapshot is stored and the incremented count is below the ceiling, does not
\* raise: it returns the stored snapshot, leaves it stored, and the count is the
\* old count plus one (1 after the first such failure, 2 after the second).
SoftFailureReturnsSnapshot ==
    (CycleTransient /\ cycle.last0 # None
        /\ cycle.cf0 + 1 < MAX_CONSECUTIVE_FAILURES)
    => /\ cycle.end = "returned"
       /\ cycle.ret = cycle.last0
       /\ last_data = cycle.last0
       /\ consecutive_failures = cycle.cf0 + 1
       /\ consecutive_failures \in {1, 2}

\* the second transient failure after a success that stored a device's data
SecondSoftFailure ==
    /\ CycleTransient
    /\ cycle.end = "returned"
    /\ cycle.cf0 = 1
    /\ consecutive_failures = 2
    /\ cycle.ret = cycle.last0
    /\ cycle.ret # EmptyData

\* C2: a cycle that fails with FermaxAuthError, InvalidCredentialsError or
\* TokenRefreshError raises, whatever the count was and whether or not a snapshot
\* is stored; nothing is returned, the stored snapshot stays, and the count is
\* the ceiling.
AuthFailureIsTerminal ==
    CycleAuth
    => /\ cycle.end = "raised"
       /\ cycle.ret = None
       /\ last_data = cycle.last0
       /\ consecutive_failures = MAX_CONSECUTIVE_FAILURES

\* the first failure after a success is an authentication failure
AuthFailureWithCache ==
    /\ CycleAuth
    /\ cycle.cf0 = 0
    /\ cycle.last0 # None
    /\ cycle.last0 # EmptyData
    /\ cycle.end = "raised"

\* C3: a failed cycle returns the stored snapshot only with a count of 1 or 2
\* after the increment; a transient failure at count 2 raises with count 3; a
\* failure at a count of 3 or more raises; and no more than two cycles return
\* the stored snapshot between two successful cycles.
BoundedTolerance ==
    /\ (CycleFailed /\ cycle.end = "returned")
         => /\ consecutive_failures = cycle.cf0 + 1
            /\ consecutive_failures \in {1, 2}
    /\ (CycleTransient /\ cycle.cf0 = MAX_CONSECUTIVE_FAILURES - 1)
         => /\ cycle.end = "raised"
            /\ consecutive_failures = MAX_CONSECUTIVE_FAILURES
    /\ (CycleFailed /\ cycle.cf0 >= MAX_CONSECUTIVE_FAILURES)
         => /\ cycle.end = "raised"
            /\ consecutive_failures >= MAX_CONSECUTIVE_FAILURES
    /\ stale_run <= 2

\* the third transient failure in a row, after two cycles that returned the snapshot
ThirdFailureRaises ==
    /\ CycleTransient
    /\ cycle.cf0 = 2
    /\ cycle.last0 # None
    /\ stale_run = 2
    /\ cycle.end = "raised"

\* C4: a cycle that succeeds returns the snapshot it built, stores it as
\* _last_data and sets the count to 0, whatever the count was.
SuccessResets ==
    CycleSucceeded
    => /\ cycle.end = "returned"
       /\ cycle.ret = cycle.built
       /\ last_data = cycle.built
       /\ consecutive_failures = 0

\* a success at a count above the ceiling that replaces a different snapshot
SuccessAboveCeiling ==
    /\ CycleSucceeded
    /\ cycle.path = "return"
    /\ cycle.cf0 > MAX_CONSECUTIVE_FAILURES
    /\ cycle.last0 # None
    /\ cycle.last0 # cycle.built
    /\ cycle.built # EmptyData

\* C5: while no snapshot is stored, every failed cycle raises.
NoSnapshotAlwaysRaises ==
    (CycleFailed /\ cycle.last0 = None)
    => /\ cycle.end = "raised"
       /\ last_data = None

\* the second transient failure of an entry that never had a successful cycle
SecondFailureWithoutSnapshot ==
    /\ CycleTransient
    /\ cycle.last0 = None
    /\ cycle.cf0 = 1
    /\ cycle.end = "raised"

\* what holds of the HTTP calls of one _request call in every case: no more than
\* two HTTP calls; the second one is sent by the invocation with
\* retry_on_auth_error false; a 401 to the first is followed by one refresh
\* call, one to the second by FermaxApiError
RetryBounded ==
    /\ \A t \in Tasks :
         /\ req[t].calls <= 2
         /\ (req[t].st = "http" /\ req[t].calls = 2) => ~req[t].retry
         /\ (req[t].st = "http" /\ ~req[t].retry) => req[t].calls = 2
    /\ \A j \in EvIdx :
         /\ IsEv(j, "send") => ev[j].n <= 2
         /\ (IsEv(j, "status") /\ ev[j].status = 401 /\ ev[j].n = 1)
              => /\ IsEv(j + 1, "refresh")
                 /\ ev[j + 1].by = "retry"
                 /\ j + 1 = Len(ev)
         /\ (IsEv(j, "status") /\ ev[j].status = 401 /\ ev[j].n = 2)
              => /\ IsEv(j + 1, "end")
                 /\ ev[j + 1].err = "FermaxApiError"
                 /\ ev[j + 1].calls = 2
         /\ (IsEv(j, "enter") /\ ~ev[j].retry) => j = 1

EnsureRefreshesOnce ==
    \A j \in EvIdx :
        /\ (IsEv(j, "ensure") /\ ev[j].held /\ ev[j].expired)
             => /\ IsEv(j + 1, "refresh")
                /\ ev[j + 1].by = "ensure"
                /\ j + 1 = Len(ev)
        /\ (IsEv(j, "ensure") /\ ev[j].held /\ ~ev[j].expired)
             => IsEv(j + 1, "ensured")
        /\ (IsEv(j, "refresh") /\ ev[j].by = "ensure")
             => /\ IsEv(j - 1, "ensure")
                /\ ev[j - 1].expired
        /\ IsEv(j, "ensured")
             => \/ j = 1
                \/ (IsEv(j - 1, "ensure") /\ ~ev[j - 1].expired)

\* the refresh of an expired token was answered and the HTTP call was sent, although
\* the new token is expired on arrival
EnsureRefreshedOnce ==
    /\ IsEv(1, "ensured")
    /\ IsEv(2, "send")
    /\ token_data # None
    /\ is_expired(token_data, now)

\* C8: a cycle whose pairings fetch yields no pairing returns an empty snapshot,
\* stores it as _last_data in place of what was stored, and sets the count to 0.
EmptyPairingsSucceed ==
    (CycleEnded /\ cycle.path = "return_empty")
    => /\ cycle.end = "returned"
       /\ cycle.ret = EmptyData
       /\ last_data = EmptyData
       /\ consecutive_failures = 0

\* no pairings after two failures, while a device's data was stored
EmptyReplacesSnapshot ==
    /\ CycleEnded
    /\ cycle.path = "return_empty"
    /\ cycle.cf0 = 2
    /\ cycle.last0 # None
    /\ cycle.last0 # EmptyData
    /\ last_data = EmptyData

\* C9: at every suspension point the held token is absent or is the one TokenData
\* object built last (from one authenticate response, one refresh response or the
\* stored dict), with the access and refresh token that were issued together; the
\* Authorization header and the refresh call read that object.
TokenNeverTorn ==
    /\ token_data # None
         => /\ token_data = issued
            /\ token_data.access_token = token_data.refresh_token
    /\ \A j \in EvIdx :
         /\ IsEv(j, "send")
              => /\ token_data # None
                 /\ ev[j].hdr = [token_type |-> token_data.token_type,
                                 access_token |-> token_data.access_token]
         /\ IsEv(j, "refresh")
              => /\ token_data # None
                 /\ ev[j].refresh_token = token_data.refresh_token

\* the unlock call retried with a refreshed token while the poll cycle awaits a response
RefreshedWhileBothSuspended ==
    /\ req["poll"].st = "http"
    /\ req["u1"].st = "http"
    /\ req["u1"].calls = 2
    /\ token_data # None
    /\ token_data.access_token = 2

\* C10: every HTTP call of _request, the retry included, directly follows the
\* return of ensure_valid_token in the same invocation; every invocation starts
\* with ensure_valid_token; when ensure_valid_token raises, the call ends with
\* that error and sends nothing.
ChokePoint ==
    \A j \in EvIdx :
        /\ IsEv(j, "send") => IsEv(j - 1, "ensured")
        /\ IsEv(j, "enter") => IsEv(j + 1, "ensure")
        /\ ((IsEv(j, "ensure") /\ ~ev[j].held)
              \/ (IsEv(j, "refresh_failed") /\ ev[j].by = "ensure"))
             => /\ IsEv(j + 1, "end")
                /\ ev[j + 1].kind = "error"
                /\ ev[j + 1].err \in AuthErrorKinds
        /\ (IsEv(j, "ensured") /\ j > 1) => IsEv(j - 1, "ensure")

\* the retry sent its HTTP call, after ensure_valid_token returned
RetrySentAfterEnsure ==
    \E j \in EvIdx :
        /\ IsEv(j, "send") /\ ev[j].n = 2
        /\ IsEv(j - 1, "ensured")
        /\ IsEv(j - 2, "ensure")
        /\ IsEv(j - 3, "enter")

\* C11: async_unlock never raises: whatever the door-open request of the gateway
\* ends with, the call completes and reports success or failure.
UnlockNeverRaises ==
    \A j \in EvIdx :
        IsEv(j, "unlocked") => ev[j].res \in {"success", "failure"}

\* C12: open_door, delete_call_records and register_app_token return False, and
\* raise nothing, when their request ends with FermaxApiError (a 409, another
\* status of 400 or more, a 401 to the retry, a transport failure); open_door and
\* register_app_token return True exactly when the request returns a value that
\* is not None, so a 404 gives False.
MutationsDegradeToFalse ==
    \A j \in EvIdx :
        IsEv(j, "called")
        => /\ ev[j].err = "FermaxApiError" => ev[j].res = Value(FALSE)
           /\ (ev[j].kind = "value" /\ ev[j].op \in {"open_door", "register_app_token"})
                => ev[j].res = Value(~ev[j].null)
           /\ (IsEv(j - 2, "status")
                 /\ (ev[j - 2].status \in {ClientError, 404, 409, 500}
                       \/ (ev[j - 2].status = 401 /\ ev[j - 2].n = 2)))
                => ev[j].res = Value(FALSE)

\* register_app_token reports False after the retry was answered 401 as well
RegisterFailsAfterSecondUnauthorized ==
    \E j \in EvIdx :
        /\ IsEv(j, "called")
        /\ ev[j].op = "register_app_token"
        /\ IsEv(j - 2, "status") /\ ev[j - 2].status = 401 /\ ev[j - 2].n = 2
        /\ ev[j].res = Value(FALSE)

\* C13: the token is persisted after every change: whenever a token is held,
\* after authenticate at setup and after every refresh, the dict stored in the
\* config entry is the held token's.
TokenPersistedAfterChange ==
    token_data # None
    => /\ stored # None
       /\ stored = to_dict(token_data)

\* C14: a cycle that fails because the refresh of the expired token is rejected
\* prompts the host for reauthentication: it raises ConfigEntryAuthFailed, the
\* exception on which the host starts the reauthentication flow, and not the
\* UpdateFailed of an ordinary failed update.
CredentialFailurePromptsReauth ==
    (CycleAuth /\ cycle.err = "TokenRefreshError")
    => cycle.exc = "ConfigEntryAuthFailed"

RefreshesSent == { j \in EvIdx : ev[j].e = "refresh" }

\* C16: refresh_token called without a held token fails with FermaxAuthError and
\* sends nothing; called with a held token it sends one request that carries the
\* held refresh token, fails with TokenRefreshError on a 400 and on every other
\* status but 200, leaving the held token, and on 200 replaces the held token by
\* the new one.
RefreshRequiresToken ==
    \A j \in EvIdx :
        IsEv(j, "refresh_done")
        => /\ ev[j].held0 = None
                => /\ ~ev[j].sent
                   /\ ev[j].res = "FermaxAuthError"
                   /\ RefreshesSent = {}
                   /\ token_data = None
           /\ ev[j].held0 # None
                => /\ ev[j].sent
                   /\ Cardinality(RefreshesSent) = 1
                   /\ \A i \in RefreshesSent :
                        ev[i].refresh_token = ev[j].held0.refresh_token
                   /\ ev[j].status # 200
                        => /\ ev[j].res = "TokenRefreshError"
                           /\ token_data = ev[j].held0
                   /\ ev[j].status = 200
                        => /\ ev[j].res = "ok"
                           /\ token_data = issued
                           /\ token_data.created_at = now
                           /\ token_data.access_token # ev[j].held0.access_token

\* refresh_token was called on an object that holds no token
RefreshWithoutToken ==
    \E j \in EvIdx :
        /\ IsEv(j, "refresh_done")
        /\ ev[j].held0 = None
        /\ ev[j].res = "FermaxAuthError"

\* C17: get_auth_header fails with FermaxAuthError whenever no token is held or
\* the held token is expired; otherwise it returns the header built from the held
\* token's type and access token; it never changes the held token.
AuthHeaderRequiresAuthenticated ==
    \A j \in EvIdx :
        IsEv(j, "get_auth_header")
        => /\ ~ev[j].authenticated => ev[j].out = Raised("FermaxAuthError")
           /\ ev[j].authenticated
                => ev[j].out = Value([token_type |-> token_data.token_type,
                                      access_token |-> token_data.access_token])
           /\ token_data = ev[j].held0

\* C18: is_expired of a token is true exactly when the instant is at or after
\* created_at + expires_in - 300 seconds; a token with a lifetime of 300 seconds
\* or less is expired from the instant it is created.
ExpiredFromBufferOn ==
    \A j \in EvIdx :
        IsEv(j, "is_expired")
        => /\ ev[j].val <=> now >= token_data.created_at + token_data.expires_in - 300
           /\ (token_data.expires_in <= 300 /\ now >= token_data.created_at) => ev[j].val

\* a token with a lifetime of 300 seconds, read at the instant it was created
ExpiredOnArrival ==
    \E j \in EvIdx :
        /\ IsEv(j, "is_expired")
        /\ token_data.expires_in = 300
        /\ now = token_data.created_at
        /\ ev[j].val

\* C19: a token restored by from_stored_dict from the dict that to_dict made of
\* a token T has T's access_token, refresh_token, token_type, expires_in and
\* created_at, and is expired at the instants T is.
StoredTokenRoundTrip ==
    \A j \in EvIdx :
        (IsEv(j, "from_stored_dict") /\ ev[j].held0 # None
            /\ stored = to_dict(ev[j].held0))
        => /\ token_data.access_token = ev[j].held0.access_token
           /\ token_data.refresh_token = ev[j].held0.refresh_token
           /\ token_data.token_type = ev[j].held0.token_type
           /\ token_data.expires_in = ev[j].held0.expires_in
           /\ token_data.created_at = ev[j].held0.created_at
           /\ \A t \in DirectTimes \cup {now} :
                is_expired(token_data, t) = is_expired(ev[j].held0, t)

\* a token created at second 1 is restored at a later instant
RestoredLater ==
    \E j \in EvIdx :
        /\ IsEv(j, "from_stored_dict")
        /\ ev[j].held0 # None
        /\ stored = to_dict(ev[j].held0)
        /\ ev[j].held0.created_at = 1
        /\ now > 1
        /\ token_data = ev[j].held0

NotFoundAnswered == \E j \in EvIdx : IsEv(j, "status") /\ ev[j].status = 404

\* the devices of a snapshot that have no device info
WithoutInfo(data) == { d \in DOMAIN data.devices : data.devices[d].device_info = None }

\* C20: a 404 is a null result and no error: _request returns None; a device
\* lookup answered 404 leaves the cycle running with no device info for the
\* device; the cycle never fails in the step a 404 arrives; a cycle that succeeds
\* with such a device has it in the snapshot, not connected and with signal 0,
\* and resets the count to 0.
NotFoundIsNull ==
    /\ \A j \in EvIdx :
         (IsEv(j, "status") /\ ev[j].status = 404)
         => /\ IsEv(j + 1, "end")
            /\ ev[j + 1].kind = "value"
            /\ ev[j + 1].null
    /\ NotFoundAnswered
         => /\ ~CycleFailed
            /\ poll.pc = "services" => poll.info = None
    /\ (CycleEnded /\ cycle.path = "return")
         => \A d \in WithoutInfo(cycle.built) :
              /\ ~DeviceData_is_connected(cycle.built.devices[d])
              /\ DeviceData_wireless_signal(cycle.built.devices[d]) = 0
              /\ cycle.end = "returned"
              /\ cycle.ret = cycle.built
              /\ consecutive_failures = 0

\* after two failures a cycle succeeds although the lookup of device d1 was answered 404
SucceedsWithoutDeviceInfo ==
    /\ CycleEnded
    /\ cycle.path = "return"
    /\ cycle.cf0 = 2
    /\ "d1" \in WithoutInfo(cycle.built)
    /\ last_data = cycle.built
    /\ consecutive_failures = 0

\* C21: a 409 makes _request fail with an error of the kind ConflictError, which
\* a caller can tell from the FermaxApiError raised for the other statuses of
\* 400 or more.
ConflictIsDistinguished ==
    \A j \in EvIdx :
        (IsEv(j, "status") /\ ev[j].status = 409)
        => /\ IsEv(j + 1, "end")
           /\ ev[j + 1].kind = "error"
           /\ ev[j + 1].err = "ConflictError"

\* C22: every transport failure of the HTTP call of _request (a connection
\* reset or a DNS failure, which are aiohttp.ClientError, and a timeout) ends the
\* call with FermaxApiError, never with the transport's own exception and never
\* with an authentication error; a poll cycle it ends is a transient failure.
TransportFailureIsApiError ==
    \A j \in EvIdx :
        ((IsEv(j, "status") /\ ev[j].status = ClientError) \/ IsEv(j, "timeout"))
        => /\ IsEv(j + 1, "end")
           /\ ev[j + 1].kind = "error"
           /\ ev[j + 1].err = "FermaxApiError"
           /\ CycleEnded => CycleTransient

\* the token restored at setup, at instant 0, is missing or expired
RestoredUnusable ==
    stored = None \/ is_expired(from_stored_dict(stored, 0), 0)

RawSignal(d) == last_data.devices[d].device_info.wireless_signal
HasRawSignal(d) ==
    /\ last_data # None
    /\ d \in DOMAIN last_data.devices
    /\ last_data.devices[d].device_info # None

\* C24: the signal sensor's value is min(100, raw * 20) for every raw signal: 0
\* for raw 0, 80 for raw 4, 100 for raw 5 and for every raw signal above 5, and
\* within 0..100 for the raw signals 0..5.
SignalPercentage ==
    \A j \in EvIdx :
        (IsEv(j, "native_value") /\ HasRawSignal(ev[j].device))
        => LET raw == RawSignal(ev[j].device)
               val == ev[j].val
           IN /\ val.known
              /\ val.val = (IF raw * 20 < 100 THEN raw * 20 ELSE 100)
              /\ raw = 0 => val.val = 0
              /\ raw = 4 => val.val = 80
              /\ raw = 5 => val.val = 100
              /\ raw > 5 => val.val = 100
              /\ raw \in 0..5 => val.val \in 0..100

\* the sensor of d2 reads a raw signal of 6
SignalClamped ==
    /\ IsEv(1, "native_value")
    /\ ev[1].device = "d2"
    /\ HasRawSignal("d2")
    /\ RawSignal("d2") = 6
    /\ ev[1].val = Known(100)

\* the door keys present in a snapshot: the unique ids of the doors of its pairings
DoorKeys(data) ==
    UNION { { unique_id(d, data.devices[d].pairing.access_doors[i]) :
                i \in 1..Len(data.devices[d].pairing.access_doors) } :
            d \in DOMAIN data.devices }

\* C25: after every run of the listener on a snapshot the known lock entities
\* are those of the door keys of the snapshot: the keys that were not known are
\* added, and no other; the keys that are known and absent are removed.
KnownLocksFollowSnapshot ==
    \A j \in EvIdx :
        (IsEv(j, "listener") /\ ev[j].data # None)
        => /\ ev[j].out = "returned"
           /\ DOMAIN known_entities = DoorKeys(ev[j].data)
           /\ ev[j].added = DoorKeys(ev[j].data) \ ev[j].known0
           /\ ev[j].removed = ev[j].known0 \ DoorKeys(ev[j].data)

\* door key k of a snapshot is reported visible
VisibleIn(data, k) ==
    \E i \in 1..Len(data.devices[k[1]].pairing.access_doors) :
        LET door == data.devices[k[1]].pairing.access_doors[i] IN
        unique_id(k[1], door) = k /\ door.visible

\* C26: after a run of the listener on a snapshot, every door of the snapshot
\* has its lock entity; a door first seen as not visible has an entity that is
\* disabled by default; a registered lock whose door is not visible is disabled
\* by the integration in the registry, and one that was disabled by the
\* integration and whose door is visible is enabled again.
VisibilityFollowsSnapshot ==
    \A j \in EvIdx :
        (IsEv(j, "listener") /\ ev[j].data # None)
        => \A k \in DoorKeys(ev[j].data) :
                /\ k \in DOMAIN known_entities
                /\ (k \notin ev[j].known0 /\ ~VisibleIn(ev[j].data, k))
                     => disabled_by_default(known_entities[k]) = "integration"
                /\ (k \in ev[j].known0 /\ k \in DOMAIN ev[j].registry0)
                     => /\ ~VisibleIn(ev[j].data, k) => registry[k] = "integration"
                        /\ (VisibleIn(ev[j].data, k) /\ ev[j].registry0[k] = "integration")
                             => registry[k] = "none"

\* what holds of the configuration flow in every case: an entry is created only
\* with a token from a successful authenticate and with at least one device, one
\* of them enabled, and with several devices only after the selection step;
\* rejected credentials show the user form again with invalid_auth, a pairings
\* fetch without pairings shows it again with no_devices
FlowGuardsEntry ==
    /\ flow.step = "created"
         => /\ token_data # None
            /\ flow.entry # None
            /\ flow.entry.token_data = to_dict(token_data)
            /\ Len(flow.entry.devices) >= 1
            /\ \E i \in 1..Len(flow.entry.devices) : flow.entry.devices[i].enabled
            /\ Len(flow.entry.devices) > 1 => flow.selecting
    /\ flow.step # "created" => flow.entry = None
    /\ \A j \in EvIdx :
         /\ (IsEv(j, "flow_authenticate") /\ ev[j].res = "InvalidCredentialsError")
              => /\ flow.step = "user"
                 /\ flow.errors = "invalid_auth"
         /\ (IsEv(j, "flow_pairings") /\ ev[j].kind = "value" /\ ev[j].n = 0)
              => /\ flow.step = "user"
                 /\ flow.errors = "no_devices"
         /\ (IsEv(j, "flow_pairings") /\ ev[j].kind = "value" /\ ev[j].n > 1)
              => flow.step = "devices"

\* C27 as amended: FlowGuardsEntry, and a pairings fetch that returns exactly
\* one pairing creates the entry without the selection step, unless an entry of
\* the same username is configured already: then no entry is created and the user
\* form is shown again with the error unknown.
FlowCreatesEntryAfterChecks ==
    /\ FlowGuardsEntry
    /\ \A j \in EvIdx :
         (IsEv(j, "flow_pairings") /\ ev[j].kind = "value" /\ ev[j].n = 1)
         => IF flow.configured
            THEN flow.step = "user" /\ flow.errors = "unknown" /\ flow.entry = None
            ELSE flow.step = "created" /\ ~flow.selecting /\ Len(flow.entry.devices) = 1

\* the entry is created from the one pairing of the account, after the first
\* pairings fetch was answered 401 and retried
EntryCreatedDirectly ==
    /\ flow.step = "created"
    /\ ~flow.selecting
    /\ Len(flow.entry.devices) = 1
    /\ \E j \in EvIdx :
         /\ IsEv(j, "flow_pairings") /\ ev[j].n = 1
         /\ IsEv(j - 1, "end") /\ ev[j - 1].calls = 2

\* C27 as stated: FlowGuardsEntry, and a pairings fetch that returns exactly one
\* pairing creates the entry without the selection step.
SinglePairingCreatesEntry ==
    /\ FlowGuardsEntry
    /\ \A j \in EvIdx :
         (IsEv(j, "flow_pairings") /\ ev[j].kind = "value" /\ ev[j].n = 1)
         => flow.step = "created" /\ ~flow.selecting

\* C28: a poll cycle that starts with a stored snapshot of at least one device
\* and a count below 2, and in which a request is answered 401 and its single
\* retry 401 again, ends with a terminal update failure and does not return the
\* stored snapshot.
StaleCredentialsNotMasked ==
    (/\ CycleEnded
     /\ cycle.last0 # None
     /\ cycle.last0 # EmptyData
     /\ cycle.cf0 < 2
     /\ \E j \in EvIdx : IsEv(j, "status") /\ ev[j].status = 401 /\ ev[j].n = 2)
    => /\ cycle.end = "raised"
       /\ cycle.exc = "UpdateFailed"
       /\ cycle.ret = None

\* C29: a failed poll cycle leaves _last_data as it was before the cycle, and
\* what it hands to its caller is that stored snapshot or nothing: the devices
\* assembled before the failing fetch are neither stored nor returned.
FailedCycleKeepsSnapshot ==
    CycleFailed
    => /\ last_data = cycle.last0
       /\ cycle.end = "returned" => (cycle.last0 # None /\ cycle.ret = cycle.last0)
       /\ cycle.end = "raised" => cycle.ret = None
       /\ cycle.built = None

\* a fetch for the second device fails after the first device was assembled,
\* while a snapshot without that device is stored
PartialSnapshotDropped ==
    /\ CycleFailed
    /\ cycle.end = "returned"
    /\ cycle.partial # None
    /\ cycle.partial # EmptyData
    /\ cycle.partial # cycle.last0
    /\ last_data = cycle.last0

RetryCarriesNewestToken ==
    [][\A t \in Tasks :
         (req[t].calls = 1 /\ req'[t].calls = 2)
         => /\ req'[t].hdr = get_auth_header(token_data').body
            /\ req[t].st = "retry_refresh" => req'[t].hdr # req[t].hdr
            /\ req'[t].args = req[t].args
            /\ \E j \in 1..Len(ev') :
                 /\ ev'[j].e = "send" /\ ev'[j].n = 2
                 /\ ev'[j].hdr = req'[t].hdr
                 /\ ev'[j].args = req[t].args
                 /\ ev'[j].args # None
      ]_vars

\* the retry of the services fetch is in flight, with a token other than the
\* one its first attempt was sent with
RetryInFlight ==
    /\ req["poll"].st = "http" /\ req["poll"].calls = 2 /\ ~req["poll"].retry
    /\ req["poll"].args = ServicesArgs("d1")
    /\ req["poll"].hdr.access_token = token_data.access_token
    /\ IsEv(1, "enter") /\ ~ev[1].retry

\* C32: _consecutive_failures is a natural number; after a cycle it is 0 exactly
\* when the cycle succeeded, the old count plus one when the cycle failed with
\* an error that is no authentication error (also past the ceiling), and the
\* ceiling when it failed with an authentication error; and a failed cycle that
\* leaves it at the ceiling or above raised UpdateFailed.
FailureCounterInvariant ==
    /\ consecutive_failures \in Nat
    /\ CycleEnded
         => /\ (consecutive_failures = 0) <=> CycleSucceeded
            /\ CycleTransient => consecutive_failures = cycle.cf0 + 1
            /\ CycleAuth => consecutive_failures = MAX_CONSECUTIVE_FAILURES
            /\ (CycleFailed /\ consecutive_failures >= MAX_CONSECUTIVE_FAILURES)
                 => (cycle.end = "raised" /\ cycle.exc = "UpdateFailed" /\ cycle.ret = None)

\* a transient failure at a count that had reached the ceiling already
CountPastCeiling ==
    /\ CycleTransient
    /\ cycle.cf0 = MAX_CONSECUTIVE_FAILURES
    /\ consecutive_failures = MAX_CONSECUTIVE_FAILURES + 1
    /\ cycle.end = "raised"

\* both entities of device d are available
BothAvailable(d) ==
    /\ FermaxSensor_available(coordinator_data, last_update_success, d)
    /\ FermaxConnectivitySensor_available(coordinator_data, last_update_success, d)
\* neither entity of device d is available
NoneAvailable(d) ==
    /\ ~FermaxSensor_available(coordinator_data, last_update_success, d)
    /\ ~FermaxConnectivitySensor_available(coordinator_data, last_update_success, d)

\* C33: once a snapshot is stored, after a failed cycle that returned it (the
\* first or the second transient failure in a row) the signal and connectivity
\* entities of every device of the snapshot are available; after a cycle that
\* raised (the ceiling is reached, or an authentication failure) none of them
\* is; and after a successful cycle the entities of exactly the devices of the
\* new snapshot are.
AvailabilityFollowsPolls ==
    (CycleEnded /\ cycle.last0 # None)
    => /\ \A d \in DOMAIN cycle.last0.devices :
            /\ (CycleFailed /\ cycle.end = "returned")
                 => (BothAvailable(d) /\ cycle.cf0 \in {0, 1} /\ CycleTransient)
            /\ (CycleFailed /\ cycle.end = "raised") => NoneAvailable(d)
       /\ CycleFailed
            => (cycle.end = "raised"
                  <=> (CycleAuth \/ cycle.cf0 + 1 >= MAX_CONSECUTIVE_FAILURES))
       /\ CycleSucceeded
            => \A d \in Devices :
                 IF d \in DOMAIN last_data.devices THEN BothAvailable(d) ELSE NoneAvailable(d)

\* the entities of d1 are available again: a successful cycle with d1 follows
\* cycles that raised
AvailableAgain ==
    /\ CycleSucceeded
    /\ cycle.cf0 >= MAX_CONSECUTIVE_FAILURES
    /\ cycle.last0 # None /\ "d1" \in DOMAIN cycle.last0.devices
    /\ BothAvailable("d1")

\* the device ids of the enabled pairings of a list
EnabledIds(ps) == { ps[i].device_id : i \in { k \in 1..Len(ps) : ps[k].enabled } }

\* C34: the snapshot of a successful cycle has an entry for exactly the devices
\* of the enabled pairings get_pairings returned, each with its pairing; a list
\* of disabled pairings alone gives an empty snapshot that is stored and returned
\* as a success; and while the cycle awaits a device or services fetch, the
\* fetch is for the first enabled pairing not yet handled, every enabled pairing
\* before it in the list is in the data already and no other device is.
SnapshotOfEnabledPairings ==
    /\ CycleSucceeded
         => /\ DOMAIN cycle.built.devices = EnabledIds(cycle.pairings)
            /\ \A i \in 1..Len(cycle.pairings) :
                 cycle.pairings[i].enabled
                 => cycle.built.devices[cycle.pairings[i].device_id].pairing = cycle.pairings[i]
            /\ EnabledIds(cycle.pairings) = {}
                 => /\ cycle.built = EmptyData
                    /\ cycle.end = "returned" /\ cycle.ret = EmptyData
                    /\ last_data = EmptyData /\ consecutive_failures = 0
    /\ poll.pc \in {"device", "services"}
         => LET k == Len(poll.pairings) - Len(poll.todo) IN
            /\ k >= 0 /\ poll.todo # <<>>
            /\ poll.todo = SubSeq(poll.pairings, k + 1, Len(poll.pairings))
            /\ Head(poll.todo).enabled
            /\ DOMAIN poll.data.devices = EnabledIds(SubSeq(poll.pairings, 1, k))
            /\ req["poll"].args = IF poll.pc = "device"
                                  THEN DeviceArgs(Head(poll.todo).device_id)
                                  ELSE ServicesArgs(Head(poll.todo).device_id)

\* a cycle succeeded on a list whose first pairing is disabled: only the second
\* device is in the snapshot
DisabledPairingSkipped ==
    /\ CycleSucceeded
    /\ Len(cycle.pairings) = 2
    /\ ~cycle.pairings[1].enabled /\ cycle.pairings[2].enabled
    /\ DOMAIN cycle.built.devices = {cycle.pairings[2].device_id}
    /\ last_data = cycle.built

\* an authenticate request is under way or was just answered
Authenticating ==
    \/ phase = "authenticating"
    \/ \E j \in EvIdx : IsEv(j, "authenticate")

\* C35: a poll cycle that ends on a refresh rejected with TokenRefreshError is
\* followed by a password authenticate request with the stored credentials.
RejectedRefreshLeadsToReauth ==
    (CycleAuth /\ cycle.err = "TokenRefreshError") ~> Authenticating

\* the step just taken held an authenticate or refresh call that failed
TokenCallFailed(log) ==
    \E j \in 1..Len(log) :
        \/ log[j].e = "refresh_failed"
        \/ log[j].e = "authenticate" /\ log[j].res # "ok"

\* C36: a step in which authenticate or refresh_token fails leaves the held
\* token as it was; the held token changes only in a step that resumes an
\* authenticate or refresh POST answered 200 (or when setup restores it from
\* storage), and then to a whole new TokenData made in that step.
FailedTokenCallKeepsToken ==
    [][/\ TokenCallFailed(ev') => token_data' = token_data
       /\ (token_data' # token_data /\ phase # "setup")
            => /\ token_data' = issued'
               /\ token_data'.created_at = now
               /\ \/ \E j \in 1..Len(ev') :
                       ev'[j].e = "authenticate" /\ ev'[j].res = "ok" /\ ev'[j].status = 200
                  \/ /\ phase = "loaded"
                     /\ \E t \in Tasks : req[t].st \in {"ens_refresh", "retry_refresh"}
                     /\ ~TokenCallFailed(ev')
       /\ \A j \in 1..Len(ev') :
            (ev'[j].e = "authenticate" /\ ev'[j].status # 200) => token_data' = token_data
      ]_vars

\* authenticate failed on a 500 while the expired token restored at setup is held
FailedAuthenticateKeepsToken ==
    /\ IsEv(1, "authenticate")
    /\ ev[1].status = 500
    /\ ev[1].held0 # None
    /\ token_data = ev[1].held0

\* the tasks whose ensure_valid_token awaits the refresh POST it sent for the
\* held, expired token
EnsureRefreshing == { t \in Tasks : req[t].st = "ens_refresh" }

\* C37: while the held token is expired, the poll cycle and an unlock call that
\* overlap do not both send a refresh grant for it: at most one task awaits the
\* answer to the refresh that its ensure_valid_token sent with the held refresh
\* token.
OneRefreshPerExpiredToken ==
    /\ Cardinality(EnsureRefreshing) <= 1
    /\ \A j \in EvIdx :
         (IsEv(j, "refresh") /\ ev[j].by = "ensure"
            /\ ev[j].refresh_token = token_data.refresh_token)
         => Cardinality(EnsureRefreshing) = 1

\* lock.py FermaxLock.is_locked
is_locked == ~is_unlocking

\* the unlock calls in flight
UnlocksInFlight == { u \in Unlockers : unlock[u] = "running" }

\* C38: is_unlocking is true, and is_locked false, exactly while at least one
\* unlock call of the entity is in flight, also when two calls overlap.
UnlockingWhileInFlight ==
    /\ is_unlocking <=> UnlocksInFlight # {}
    /\ is_locked <=> UnlocksInFlight = {}

RestoredToken == IF stored # None THEN from_stored_dict(stored, now) ELSE None

\* the restored token is one that setup has to replace
RestoredMissingOrExpired ==
    RestoredToken = None \/ now >= expires_at(RestoredToken) - EXPIRY_BUFFER

\* C40: at setup an authenticate request is sent if and only if the restored
\* token is missing or expired and the entry holds credentials; with a restored
\* token that has not expired none is sent and the stored token stays as it is;
\* an authenticate that succeeds writes the new token to the entry's storage in
\* the same step, before any request of the first poll, and nothing else writes it.
SetupAuthenticatesWhenNeeded ==
    [][/\ phase = "setup"
            => /\ token_data' = RestoredToken
               /\ stored' = stored
               /\ (phase' = "authenticating") <=> (RestoredMissingOrExpired /\ has_credentials)
               /\ ~RestoredMissingOrExpired => phase' = "loaded"
       /\ (\E j \in 1..Len(ev') : ev'[j].e = "authenticate")
            <=> phase = "authenticating"
       /\ \A j \in 1..Len(ev') :
            (ev'[j].e = "authenticate" /\ ev'[j].res = "ok")
            => /\ token_data' # None
               /\ stored' = to_dict(token_data')
               /\ phase' = "loaded"
               /\ poll = IdlePoll /\ poll' = IdlePoll
               /\ cycle = NoCycle /\ cycle' = NoCycle
       /\ stored' # stored
            => \E j \in 1..Len(ev') : ev'[j].e = "authenticate" /\ ev'[j].res = "ok"
       /\ poll' # IdlePoll => phase = "loaded"
      ]_vars

\* an expired token was restored, authenticate has replaced it and the entry
\* holds the new one, with no poll started yet
ExpiredTokenReplacedAndSaved ==
    /\ IsEv(1, "authenticate")
    /\ ev[1].res = "ok"
    /\ ev[1].held0 # None
    /\ token_data # ev[1].held0
    /\ stored = to_dict(token_data)
    /\ phase = "loaded"
    /\ poll = IdlePoll
====
